---- MODULE Spec2Model ----
(***************************************************************************)
(* ContextManager (tiered memory loading): refresh() and discoverContext() *)
(* over a small directory tree, with the trust flag, the read outcomes and *)
(* the tier-discovery outcomes supplied by the environment.                *)
(*                                                                         *)
(* keywordExtractor: extractKeywords() applied to bounded queries, under   *)
(* the specification SpecKeywords.                                         *)
(*                                                                         *)
(* BenchmarkLogger: log() calls on one result file whose content is JSON   *)
(* text, under the specification SpecLogger.                               *)
(*                                                                         *)
(* run-benchmark.js: main() over the two projects and the prompts, with    *)
(* the outcomes of the resets and of the CLI child processes supplied by   *)
(* the environment, under the specification SpecRunner.                    *)
(*                                                                         *)
(* A path is a sequence of name numbers; <<>> is the filesystem root.      *)
(* A string is a sequence of tokens [k, p]: a provenance header, a file's  *)
(* text, a footer, the "\n\n" separator, MCP text or leading whitespace.   *)
(***************************************************************************)
EXTENDS Naturals, Integers, Sequences, FiniteSets, TLC

\* ---------------------------------------------------------------- bounds
MaxDepth == 2        \* depth of the directory chain below "/"
NumJit == 2          \* discoverContext() call slots
MaxPieces == 4       \* pieces of a query
MaxFileLen == 4      \* tokens of the result file at the start
NumLoggers == 2      \* callers of BenchmarkLogger.log
MaxArgs == 4         \* command-line arguments of the benchmark runner
NumPrompts == 2      \* prompts of prompts.json
MaxInFlight == 2     \* ContextManager operations awaiting at once, when interleaved
MaxChunks == 2       \* responses of a wrapped stream
MaxTimeout == 2      \* --timeout, in steps of 5 s

\* ------------------------------------------------------------ paths
FsRoot == <<>>
Chain(n) == [i \in 1..n |-> 1]
ChainDirs == {Chain(n) : n \in 0..MaxDepth}
Home == <<2>>
Dirs == ChainDirs \cup {Home}

Dirname(p) == SubSeq(p, 1, Len(p) - 1)
MemFile(d) == Append(d, 0)      \* the memory file of directory d
SourceFile(d) == Append(d, 9)   \* some other file of directory d
Paths == {MemFile(d) : d \in Dirs}

Tiers == {"global", "extension", "project"}
GlobalCand == {MemFile(Home)}
ExtCand == {MemFile(Home), MemFile(Chain(1))}
ProjCand == {MemFile(d) : d \in ChainDirs \ {FsRoot}}

\* The order in which the three concurrent tier discoveries complete.
TierOrders ==
  {o \in [1..3 -> Tiers] : \A t \in Tiers : \E i \in 1..3 : o[i] = t}

AccessedPaths == {SourceFile(d) : d \in ChainDirs \ {FsRoot}}
RootSets == {{d} : d \in ChainDirs \ {FsRoot}}

\* ------------------------------------------------------------ strings
Tok(k, p) == [k |-> k, p |-> p]
Sep == Tok("sep", <<>>)
Ws == Tok("ws", <<>>)
Mcp == Tok("mcp", <<>>)
Null == <<Tok("null", <<>>)>>
FileText(p) == <<Tok("txt", p)>>
McpTexts == {<<>>, <<Ws>>, <<Ws, Mcp>>}

RECURSIVE Join(_, _)
Join(parts, sep) ==
  IF Len(parts) = 0 THEN <<>>
  ELSE IF Len(parts) = 1 THEN parts[1]
  ELSE parts[1] \o sep \o Join(Tail(parts), sep)

RECURSIVE trimStart(_)
trimStart(s) ==
  IF Len(s) > 0 /\ Head(s) = Ws THEN trimStart(Tail(s)) ELSE s

filterBoolean(parts) ==
  SelectSeq(parts, LAMBDA s : Len(s) > 0)

Range(s) == {s[i] : i \in 1..Len(s)}

Reverse(s) == [i \in 1..Len(s) |-> s[Len(s) + 1 - i]]

\* ------------------------------------------------------------ ordering
RECURSIVE LexLess(_, _)
LexLess(p, q) ==
  IF Len(q) = 0 THEN FALSE
  ELSE IF Len(p) = 0 THEN TRUE
  ELSE IF Head(p) # Head(q) THEN Head(p) < Head(q)
  ELSE LexLess(Tail(p), Tail(q))

Depth(p) == Len(Dirname(p))

Before(p, q) ==
  \/ Depth(p) < Depth(q)
  \/ Depth(p) = Depth(q) /\ LexLess(p, q)

RECURSIVE SortPaths(_)
SortPaths(S) ==
  IF S = {} THEN <<>>
  ELSE LET m == CHOOSE x \in S : \A y \in S : x = y \/ Before(x, y)
       IN <<m>> \o SortPaths(S \ {m})

RECURSIVE Dedup(_)
Dedup(s) ==
  IF Len(s) = 0 THEN <<>>
  ELSE <<Head(s)>> \o Dedup(SelectSeq(Tail(s), LAMBDA x : x # Head(s)))

\* ------------------------------------------------ memoryDiscovery helpers
\* One provenance-framed block per file, blocks joined by a blank line.
Block(f) == <<Tok("hdr", f.filePath)>> \o f.content \o <<Tok("end", f.filePath)>>

concatenateInstructions(files) ==
  Join([i \in 1..Len(files) |-> Block(files[i])], <<Sep>>)

\* Every path is read; a failed read yields the null content marker.
readGeminiMdFiles(allPaths, ok) ==
  [i \in 1..Len(allPaths) |->
     [filePath |-> allPaths[i],
      content |-> IF allPaths[i] \in ok THEN FileText(allPaths[i]) ELSE Null]]

\* new Map(entries): one entry per key, at the key's first position.
MapOf(entries) ==
  LET keys == Dedup([i \in 1..Len(entries) |-> entries[i].filePath])
  IN [i \in 1..Len(keys) |->
        LET js == {j \in 1..Len(entries) : entries[j].filePath = keys[i]}
            last == CHOOSE j \in js : \A k \in js : k <= j
        IN entries[last]]

MapGet(cmap, p) == cmap[CHOOSE i \in 1..Len(cmap) : cmap[i].filePath = p]

\* The tier a successfully read path is attributed to: global, then
\* extension, then project.
TierOf(paths, p) ==
  IF p \in Range(paths.global) THEN "global"
  ELSE IF p \in Range(paths.extension) THEN "extension"
  ELSE "project"

TierText(sorted, cmap) ==
  concatenateInstructions([i \in 1..Len(sorted) |-> MapGet(cmap, sorted[i])])

categorizeAndConcatenate(paths, cmap) ==
  LET all == Range(paths.global) \cup Range(paths.extension)
               \cup Range(paths.project)
      read == {p \in all : \E i \in 1..Len(cmap) :
                 cmap[i].filePath = p /\ cmap[i].content # Null}
      text(t) == TierText(SortPaths({p \in read : TierOf(paths, p) = t}), cmap)
  IN [global |-> text("global"),
      extension |-> text("extension"),
      project |-> text("project")]

\* The upward walk: visit a directory, then stop at a trusted root, at the
\* filesystem root, or when the hop ceiling is reached.
MaxHops == 32

RECURSIVE WalkFrom(_, _, _)
WalkFrom(d, roots, hops) ==
  IF d \in roots \/ d = FsRoot \/ hops >= MaxHops THEN <<d>>
  ELSE <<d>> \o WalkFrom(Dirname(d), roots, hops + 1)

Walk(accessedPath, roots) == WalkFrom(Dirname(accessedPath), roots, 0)

\* The memory files of the walked directories that are not loaded yet.
JitCandidates(accessedPath, roots, alreadyLoaded) ==
  LET w == Walk(accessedPath, roots)
  IN SelectSeq([i \in 1..Len(w) |-> MemFile(w[i])],
               LAMBDA p : p \notin alreadyLoaded)

loadJitSubdirectoryMemory(toRead, ok) ==
  LET got == SelectSeq(readGeminiMdFiles(toRead, ok),
                       LAMBDA c : c.content # Null)
  IN [files |-> [i \in 1..Len(got) |->
                   [path |-> got[i].filePath, content |-> got[i].content]]]

\* The order in which the concurrent reads of allPaths complete: as asked,
\* or the last one asked first.
ReadOrders(allPaths) == {allPaths, Reverse(allPaths)}

\* ------------------------------------------------------ ContextManager
\* Faulty discoverMemoryPaths: the results are taken in completion order.
discoverMemoryPathsByCompletion(results, order) ==
  [global |-> results[order[1]],
   extension |-> results[order[2]],
   project |-> results[order[3]]]

\* discoverMemoryPaths: Promise.all hands each result back at the position
\* of its promise, whatever the completion order.
discoverMemoryPaths(results, order) ==
  [global |-> results.global,
   extension |-> results.extension,
   project |-> results.project]

\* Faulty allPathsOf: the three lists are concatenated without the Set.
allPathsOfNoDedup(paths) ==
  paths.global \o paths.extension \o paths.project

allPathsOf(paths) ==
  Dedup(paths.global \o paths.extension \o paths.project)

\* Faulty loadedFiles: null contents are not filtered out.
loadedFilesUnfiltered(allContents) == allContents

loadedFiles(allContents) ==
  SelectSeq(allContents, LAMBDA c : c.content # Null)

filePathsOf(files) == [i \in 1..Len(files) |-> files[i].filePath]

\* Faulty markAsLoaded: nothing is added.
markAsLoadedNothing(loaded, ps) == loaded

\* Faulty markAsLoaded: the set is replaced by the new paths.
markAsLoadedReplace(loaded, ps) == Range(ps)

markAsLoaded(loaded, ps) == loaded \cup Range(ps)

detailTier(paths, filePath) ==
  LET globalSet == Range(paths.global)
      extensionSet == Range(paths.extension)
  IN IF filePath \in globalSet THEN "global"
     ELSE IF filePath \in extensionSet THEN "extension"
     ELSE "project"

buildMemoryFileDetails(paths, cmap) ==
  LET kept == SelectSeq(cmap, LAMBDA c : c.content # Null)
  IN [i \in 1..Len(kept) |->
        [path |-> kept[i].filePath,
         tier |-> detailTier(paths, kept[i].filePath),
         chars |-> Len(kept[i].content)]]

\* Faulty projectMemoryWithMcp: the MCP text is put first.
projectMemoryMcpFirst(project, mcpInstructions) ==
  Join(filterBoolean(<<trimStart(mcpInstructions), project>>), <<Sep>>)

projectMemoryWithMcp(project, mcpInstructions) ==
  Join(filterBoolean(<<project, trimStart(mcpInstructions)>>), <<Sep>>)

\* Faulty categorizeMemoryContents: the project string is not gated on
\* trust.
categorizeMemoryContentsUngated(hierarchicalMemory, mcpInstructions, isTrusted) ==
  [globalMemory |-> hierarchicalMemory.global,
   extensionMemory |-> hierarchicalMemory.extension,
   projectMemory |-> projectMemoryWithMcp(hierarchicalMemory.project,
                                          mcpInstructions)]

categorizeMemoryContents(hierarchicalMemory, mcpInstructions, isTrusted) ==
  [globalMemory |-> hierarchicalMemory.global,
   extensionMemory |-> hierarchicalMemory.extension,
   projectMemory |-> IF isTrusted
                     THEN projectMemoryWithMcp(hierarchicalMemory.project,
                                               mcpInstructions)
                     ELSE <<>>]

\* discoverMemoryPaths: the project tier is discovered only when trusted.
projectPaths(isTrusted, discovered) ==
  IF isTrusted THEN discovered ELSE <<>>

\* Faulty passesTrustGate: the early return is missing.
passesTrustGateAlways(isTrusted) == TRUE

\* discoverContext: the early return of an untrusted workspace.
passesTrustGate(isTrusted) == isTrusted

\* Faulty alreadyLoadedPaths: an empty set is handed over.
alreadyLoadedPathsEmpty(loaded) == {}

\* discoverContext: the loaded set handed to loadJitSubdirectoryMemory.
alreadyLoadedPaths(loaded) == loaded

\* Faulty loadedAfterDiscover: the returned files are not marked.
loadedAfterDiscoverUnmarked(loaded, result) == loaded

\* discoverContext: nothing is marked when no file was loaded.
loadedAfterDiscover(loaded, result) ==
  IF Len(result.files) = 0 THEN loaded
  ELSE markAsLoaded(loaded, [i \in 1..Len(result.files) |->
                                result.files[i].path])

\* Faulty tierStringsAfterDiscover: the returned content is merged into the
\* project string.
tierStringsAfterDiscoverMerged(mem, ret) ==
  [mem EXCEPT !.projectMemory = mem.projectMemory \o ret]

\* discoverContext assigns none of globalMemory, extensionMemory and
\* projectMemory.
tierStringsAfterDiscover(mem, ret) == mem

\* Faulty jitTrustedRoots: no root is handed over.
jitTrustedRootsNone(trustedRoots) == {}

\* discoverContext: the roots handed to loadJitSubdirectoryMemory.
jitTrustedRoots(trustedRoots) == trustedRoots

\* Faulty emitMemoryChanged: one event per loaded file.
emitMemoryChangedPerFile(loaded) ==
  [i \in 1..Cardinality(loaded) |-> [fileCount |-> i]]

\* emitMemoryChanged: the events it emits.
emitMemoryChanged(loaded) == <<[fileCount |-> Cardinality(loaded)]>>

discoverContextFiles(result) ==
  [i \in 1..Len(result.files) |->
     [filePath |-> result.files[i].path, content |-> result.files[i].content]]

\* ---------------------------------------------------- keywordExtractor
\* A query is a sequence of one-character strings. The model's alphabet:
\* the letters a, d, A, D, the underscore, the hyphen, the dot, the slash,
\* the space and the two quotes.
LowerChars == {"a", "d"}
UpperChars == {"A", "D"}
Quotes == {"\"", "'"}

IsLower(c) == c \in LowerChars
IsUpper(c) == c \in UpperChars
IsQuote(c) == c \in Quotes
IsSpace(c) == c = " "
\* \w
IsWord(c) == IsLower(c) \/ IsUpper(c) \/ c = "_"
\* [\w.-]
IsPathChar(c) == IsWord(c) \/ c = "." \/ c = "-"

\* The entries of STOP_WORDS that can be written in the model's alphabet.
STOP_WORDS == {<<"a">>, <<"a", "d", "d">>}

toLowerCase(s) ==
  [i \in 1..Len(s) |->
     IF s[i] = "A" THEN "a" ELSE IF s[i] = "D" THEN "d" ELSE s[i]]

RECURSIVE trimEnd(_)
trimEnd(s) ==
  IF Len(s) > 0 /\ IsSpace(s[Len(s)]) THEN trimEnd(SubSeq(s, 1, Len(s) - 1))
  ELSE s

RECURSIVE trimLeft(_)
trimLeft(s) ==
  IF Len(s) > 0 /\ IsSpace(Head(s)) THEN trimLeft(Tail(s)) ELSE s

trim(s) == trimEnd(trimLeft(s))

RECURSIVE Flatten(_)
Flatten(ss) == IF Len(ss) = 0 THEN <<>> ELSE Head(ss) \o Flatten(Tail(ss))

\* The first index from i on whose character is a quote, 0 if none.
NextQuote(q, i) ==
  LET js == {j \in i..Len(q) : IsQuote(q[j])}
  IN IF js = {} THEN 0 ELSE CHOOSE j \in js : \A k \in js : j <= k

\* The matches of /["']([^"']+)["']/g from index i on: a quote, one or more
\* characters that are not quotes, a quote.
RECURSIVE QuotedMatches(_, _)
QuotedMatches(q, i) ==
  IF i > Len(q) THEN <<>>
  ELSE IF ~IsQuote(q[i]) THEN QuotedMatches(q, i + 1)
  ELSE LET j == NextQuote(q, i + 1)
       IN IF j = 0 THEN <<>>
          ELSE IF j = i + 1 THEN QuotedMatches(q, i + 1)
          ELSE <<[from |-> i, to |-> j]>> \o QuotedMatches(q, j + 1)

extractQuotedStrings(query) ==
  LET ms == QuotedMatches(query, 1)
      contents == [n \in 1..Len(ms) |->
                     trim(SubSeq(query, ms[n].from + 1, ms[n].to - 1))]
  IN SelectSeq(contents, LAMBDA content : Len(content) > 0)

\* The last index of the run of [\w.-] characters that starts at k.
SegEnd(q, k) ==
  CHOOSE e \in k..Len(q) :
    /\ \A j \in k..e : IsPathChar(q[j])
    /\ e = Len(q) \/ ~IsPathChar(q[e + 1])

\* (?:[\w.-]+\/)+[\w.-]+ from k on, where a [\w.-] run starts: the runs
\* taken, n counted in, and the index of the last character matched.
RECURSIVE PathRun(_, _, _)
PathRun(q, k, n) ==
  LET e == SegEnd(q, k)
  IN IF e + 2 <= Len(q) /\ q[e + 1] = "/" /\ IsPathChar(q[e + 2])
     THEN PathRun(q, e + 2, n + 1)
     ELSE [n |-> n + 1, to |-> e]

\* The match of /(?:\.{0,2}\/)?(?:[\w.-]+\/)+[\w.-]+(?:\.\w+)?/ that starts
\* at index i, to = 0 if there is none. A leading "./" or "../" is also a
\* [\w.-] run followed by a slash, and the greedy last run leaves nothing for
\* the optional suffix; so only a leading "/" needs a case of its own.
PathMatchAt(q, i) ==
  IF IsPathChar(q[i])
  THEN LET r == PathRun(q, i, 0)
       IN IF r.n >= 2 THEN [from |-> i, to |-> r.to] ELSE [from |-> i, to |-> 0]
  ELSE IF q[i] = "/" /\ i + 1 <= Len(q) /\ IsPathChar(q[i + 1])
  THEN LET r == PathRun(q, i + 1, 0)
       IN IF r.n >= 2 THEN [from |-> i, to |-> r.to] ELSE [from |-> i, to |-> 0]
  ELSE [from |-> i, to |-> 0]

RECURSIVE PathMatches(_, _)
PathMatches(q, i) ==
  IF i > Len(q) THEN <<>>
  ELSE LET m == PathMatchAt(q, i)
       IN IF m.to = 0 THEN PathMatches(q, i + 1)
          ELSE <<m>> \o PathMatches(q, m.to + 1)

\* filePath.replace(/\.$/, '')
stripTrailingDot(filePath) ==
  IF Len(filePath) > 0 /\ filePath[Len(filePath)] = "."
  THEN SubSeq(filePath, 1, Len(filePath) - 1)
  ELSE filePath

extractFilePaths(query) ==
  LET ms == PathMatches(query, 1)
      found == [n \in 1..Len(ms) |->
                  stripTrailingDot(SubSeq(query, ms[n].from, ms[n].to))]
  IN SelectSeq(found, LAMBDA filePath : Len(filePath) > 0)

\* The maximal runs of \w characters of q from index i on, in order: a
\* match that starts and ends with \b and consists of \w characters is one
\* of them.
RECURSIVE WordRuns(_, _)
WordRuns(q, i) ==
  IF i > Len(q) THEN <<>>
  ELSE IF ~IsWord(q[i]) THEN WordRuns(q, i + 1)
  ELSE LET e == CHOOSE e \in i..Len(q) :
                  /\ \A j \in i..e : IsWord(q[j])
                  /\ e = Len(q) \/ ~IsWord(q[e + 1])
       IN <<SubSeq(q, i, e)>> \o WordRuns(q, e + 1)

\* [a-z]+(?:[A-Z][a-z]+)+ or [A-Z][a-z]+(?:[A-Z][a-z]+)+ over the whole
\* word: letters only, every capital followed by a lower-case letter, and a
\* capital after the first character.
IsCamel(word) ==
  /\ \A i \in 1..Len(word) : IsLower(word[i]) \/ IsUpper(word[i])
  /\ \A i \in 1..Len(word) :
       IsUpper(word[i]) => i < Len(word) /\ IsLower(word[i + 1])
  /\ \E i \in 2..Len(word) : IsUpper(word[i])

\* \w+(?:_\w+)+ over the whole word: an underscore with a character before
\* it and one after it.
IsSnake(word) == \E i \in 2..(Len(word) - 1) : word[i] = "_"

\* word.replace(/([a-z])([A-Z])/g, '$1 $2').split(' ')
RECURSIVE splitCamel(_, _)
splitCamel(word, part) ==
  IF Len(word) = 0 THEN <<part>>
  ELSE IF Len(part) > 0 /\ IsLower(part[Len(part)]) /\ IsUpper(Head(word))
  THEN <<part>> \o splitCamel(Tail(word), <<Head(word)>>)
  ELSE splitCamel(Tail(word), Append(part, Head(word)))

\* word.split('_')
RECURSIVE splitSnake(_, _)
splitSnake(word, part) ==
  IF Len(word) = 0 THEN <<part>>
  ELSE IF Head(word) = "_"
  THEN <<part>> \o splitSnake(Tail(word), <<>>)
  ELSE splitSnake(Tail(word), Append(part, Head(word)))

\* Faulty isStopWord: the word is looked up as written.
isStopWordCaseSensitive(word) == word \in STOP_WORDS

\* STOP_WORDS.has(word.toLowerCase())
isStopWord(word) == toLowerCase(word) \in STOP_WORDS

\* Faulty identifierTerms: the parts are not filtered by length.
identifierTermsAnyLength(word, parts) ==
  <<word>> \o SelectSeq(parts, LAMBDA part : ~isStopWord(part))

\* The whole identifier, then its parts longer than 2 that are no stop words.
identifierTerms(word, parts) ==
  <<word>> \o SelectSeq(parts, LAMBDA part :
                 Len(part) > 2 /\ ~isStopWord(part))

extractIdentifiers(query) ==
  LET words == WordRuns(query, 1)
      camel == SelectSeq(words, IsCamel)
      snake == SelectSeq(words, IsSnake)
  IN Flatten([n \in 1..Len(camel) |->
                identifierTerms(camel[n], splitCamel(camel[n], <<>>))])
     \o Flatten([n \in 1..Len(snake) |->
                   identifierTerms(snake[n], splitSnake(snake[n], <<>>))])

\* query.replace(/["'][^"']*["']/g, '')
RECURSIVE removeQuoted(_, _)
removeQuoted(q, i) ==
  IF i > Len(q) THEN <<>>
  ELSE IF ~IsQuote(q[i]) THEN <<q[i]>> \o removeQuoted(q, i + 1)
  ELSE LET j == NextQuote(q, i + 1)
       IN IF j = 0 THEN SubSeq(q, i, Len(q)) ELSE removeQuoted(q, j + 1)

\* .replace(<the file path pattern>, '')
RECURSIVE removePaths(_, _)
removePaths(q, i) ==
  IF i > Len(q) THEN <<>>
  ELSE LET m == PathMatchAt(q, i)
       IN IF m.to = 0 THEN <<q[i]>> \o removePaths(q, i + 1)
          ELSE removePaths(q, m.to + 1)

\* .replace(/[^a-zA-Z0-9_\s-]/g, ' ')
replacePunctuation(q) ==
  [i \in 1..Len(q) |->
     IF IsWord(q[i]) \/ IsSpace(q[i]) \/ q[i] = "-" THEN q[i] ELSE " "]

\* .split(/\s+/)
RECURSIVE splitWhitespace(_, _)
splitWhitespace(q, word) ==
  IF Len(q) = 0 THEN <<word>>
  ELSE IF IsSpace(Head(q))
  THEN <<word>> \o splitWhitespace(trimLeft(q), <<>>)
  ELSE splitWhitespace(Tail(q), Append(word, Head(q)))

extractGeneralTerms(query) ==
  LET cleaned ==
        SelectSeq(
          splitWhitespace(
            replacePunctuation(removePaths(removeQuoted(query, 1), 1)), <<>>),
          LAMBDA word : Len(word) > 2 /\ ~isStopWord(word))
  IN Dedup(cleaned)

\* Faulty addUnique: terms are compared as written.
RECURSIVE addUniqueCaseSensitive(_, _)
addUniqueCaseSensitive(acc, terms) ==
  IF Len(terms) = 0 THEN acc
  ELSE LET term == Head(terms)
       IN IF term \notin acc.seen /\ Len(term) > 1
          THEN addUniqueCaseSensitive(
                 [seen |-> acc.seen \cup {term},
                  keywords |-> Append(acc.keywords, term)], Tail(terms))
          ELSE addUniqueCaseSensitive(acc, Tail(terms))

\* Faulty addUnique: the length test is missing.
RECURSIVE addUniqueAnyLength(_, _)
addUniqueAnyLength(acc, terms) ==
  IF Len(terms) = 0 THEN acc
  ELSE LET term == Head(terms)
           lower == toLowerCase(term)
       IN IF lower \notin acc.seen
          THEN addUniqueAnyLength(
                 [seen |-> acc.seen \cup {lower},
                  keywords |-> Append(acc.keywords, term)], Tail(terms))
          ELSE addUniqueAnyLength(acc, Tail(terms))

\* Faulty addUnique: terms of two characters are dropped too.
RECURSIVE addUniqueLongerThanTwo(_, _)
addUniqueLongerThanTwo(acc, terms) ==
  IF Len(terms) = 0 THEN acc
  ELSE LET term == Head(terms)
           lower == toLowerCase(term)
       IN IF lower \notin acc.seen /\ Len(lower) > 2
          THEN addUniqueLongerThanTwo(
                 [seen |-> acc.seen \cup {lower},
                  keywords |-> Append(acc.keywords, term)], Tail(terms))
          ELSE addUniqueLongerThanTwo(acc, Tail(terms))

RECURSIVE addUnique(_, _)
addUnique(acc, terms) ==
  IF Len(terms) = 0 THEN acc
  ELSE LET term == Head(terms)
           lower == toLowerCase(term)
       IN IF lower \notin acc.seen /\ Len(lower) > 1
          THEN addUnique([seen |-> acc.seen \cup {lower},
                          keywords |-> Append(acc.keywords, term)],
                         Tail(terms))
          ELSE addUnique(acc, Tail(terms))

\* Faulty mergeKeywords: the general terms are added first.
mergeKeywordsGeneralFirst(quotedStrings, filePaths, identifiers, generalTerms) ==
  addUnique(addUnique(addUnique(addUnique(
      [seen |-> {}, keywords |-> <<>>],
      generalTerms), quotedStrings), filePaths), identifiers).keywords

\* The four addUnique calls of extractKeywords.
mergeKeywords(quotedStrings, filePaths, identifiers, generalTerms) ==
  addUnique(addUnique(addUnique(addUnique(
      [seen |-> {}, keywords |-> <<>>],
      quotedStrings), filePaths), identifiers), generalTerms).keywords

extractKeywords(query) ==
  LET quotedStrings == extractQuotedStrings(query)
      filePaths == extractFilePaths(query)
      identifiers == extractIdentifiers(query)
      generalTerms == extractGeneralTerms(query)
  IN [keywords |-> mergeKeywords(quotedStrings, filePaths, identifiers,
                                 generalTerms),
      quotedStrings |-> quotedStrings,
      filePaths |-> filePaths,
      identifiers |-> identifiers,
      generalTerms |-> generalTerms]

\* The queries: up to MaxPieces pieces, one after the other.
Pieces ==
  {<<"\"">>, <<"'">>, <<" ">>, <<"/">>, <<".">>, <<"_">>, <<"-">>,
   <<"a">>, <<"d", "a", "d">>, <<"D", "a", "d">>, <<"a", "d", "d">>,
   <<"A", "d", "d">>}

Queries ==
  {Flatten(ps) : ps \in UNION {[1..n -> Pieces] : n \in 0..MaxPieces}}

\* ---------------------------------------------------- benchmarkLogger
\* The text of benchmark.result.json is a sequence of JSON tokens. An entry
\* (a BenchmarkLog object) is written by its name; "7" is a number.
Loggers == 1..NumLoggers
OldEntry == "e0"
EntryOf(c) == IF c = 1 THEN "e1" ELSE IF c = 2 THEN "e2" ELSE "e3"
Entries == {OldEntry} \cup {EntryOf(c) : c \in Loggers}
JsonTokens == {"[", "]", ",", "7", OldEntry}
NoFile == [exists |-> FALSE, text |-> <<>>]
FileOf(text) == [exists |-> TRUE, text |-> text]
FileTexts == UNION {[1..n -> JsonTokens] : n \in 0..MaxFileLen}

JArray(items) == [t |-> "array", items |-> items, id |-> ""]
JObject(id) == [t |-> "object", items |-> <<>>, id |-> id]
JNumber == [t |-> "number", items |-> <<>>, id |-> "7"]
SyntaxError == [ok |-> FALSE, value |-> JNumber, next |-> 0]
Parsed(value, next) == [ok |-> TRUE, value |-> value, next |-> next]

RECURSIVE SkipWhitespace(_, _)
SkipWhitespace(text, i) ==
  IF i <= Len(text) /\ text[i] = " " THEN SkipWhitespace(text, i + 1) ELSE i

RECURSIVE ParseValue(_, _)
RECURSIVE ParseItems(_, _, _)
ParseValue(text, i) ==
  LET j == SkipWhitespace(text, i)
  IN IF j > Len(text) THEN SyntaxError
     ELSE IF text[j] \in Entries THEN Parsed(JObject(text[j]), j + 1)
     ELSE IF text[j] = "7" THEN Parsed(JNumber, j + 1)
     ELSE IF text[j] = "[" THEN
       LET k == SkipWhitespace(text, j + 1)
       IN IF k <= Len(text) /\ text[k] = "]"
          THEN Parsed(JArray(<<>>), k + 1)
          ELSE ParseItems(text, j + 1, <<>>)
     ELSE SyntaxError

ParseItems(text, i, acc) ==
  LET v == ParseValue(text, i)
  IN IF ~v.ok THEN SyntaxError
     ELSE LET k == SkipWhitespace(text, v.next)
          IN IF k > Len(text) THEN SyntaxError
             ELSE IF text[k] = "," THEN
               ParseItems(text, k + 1, Append(acc, v.value))
             ELSE IF text[k] = "]" THEN
               Parsed(JArray(Append(acc, v.value)), k + 1)
             ELSE SyntaxError

\* JSON.parse(fileContent): the whole text is one value.
JSONparse(text) ==
  LET v == ParseValue(text, 1)
  IN IF v.ok /\ SkipWhitespace(text, v.next) > Len(text) THEN v ELSE SyntaxError

\* JSON.stringify(logs, null, 2): the items of a non-empty array are
\* written on lines of their own.
RECURSIVE JSONstringify(_)
RECURSIVE StringifyItems(_, _)
JSONstringify(value) ==
  IF value.t = "array"
  THEN IF value.items = <<>>
       THEN <<"[", "]">>
       ELSE <<"[">> \o StringifyItems(value.items, 1) \o <<" ", "]">>
  ELSE <<value.id>>

StringifyItems(items, n) ==
  IF n > Len(items) THEN <<>>
  ELSE (IF n > 1 THEN <<",">> ELSE <<>>) \o <<" ">>
         \o JSONstringify(items[n]) \o StringifyItems(items, n + 1)

\* The try block of log(): the parsed content of the file, or [] when the
\* read or the parse throws.
readLogs(file) ==
  IF ~file.exists THEN JArray(<<>>)
  ELSE LET parsed == JSONparse(file.text)
       IN IF parsed.ok THEN parsed.value ELSE JArray(<<>>)

\* A faulty variant: the entry is put in front.
pushEntryInFront(logs, entry) ==
  IF logs.t = "array"
  THEN [threw |-> FALSE, logs |-> JArray(<<JObject(entry)>> \o logs.items)]
  ELSE [threw |-> TRUE, logs |-> logs]

\* logs.push(entry): a TypeError when logs is no array.
pushEntry(logs, entry) ==
  IF logs.t = "array"
  THEN [threw |-> FALSE, logs |-> JArray(Append(logs.items, JObject(entry)))]
  ELSE [threw |-> TRUE, logs |-> logs]

\* ------------------------------------------------------ run-benchmark
NumProjects == 2
DefaultRetries == 2
Projects == 1..NumProjects
Prompts == 1..NumPrompts
ArgTokens == {"--retries", "--dry-run", "--no-reset", "-1", "0", "1"}
Argvs == UNION {[1..n -> ArgTokens] : n \in 0..MaxArgs}

\* A JavaScript number: an integer or NaN.
Number(n) == [nan |-> FALSE, n |-> n]
NaN == [nan |-> TRUE, n |-> 0]
Plus(a, b) == IF a.nan \/ b.nan THEN NaN ELSE Number(a.n + b.n)
LessThan(a, b) == ~a.nan /\ ~b.nan /\ a.n < b.n

\* parseInt(text, 10) of an argument; argv[++i] past the end is undefined.
parseInt(text) ==
  IF text = "-1" THEN Number(0 - 1)
  ELSE IF text = "0" THEN Number(0)
  ELSE IF text = "1" THEN Number(1)
  ELSE NaN
ArgAt(argv, i) == IF i <= Len(argv) THEN argv[i] ELSE "undefined"

DefaultArgs ==
  [retries |-> Number(DefaultRetries), dryRun |-> FALSE, noReset |-> FALSE]

RECURSIVE parseArgsFrom(_, _, _)
parseArgsFrom(argv, i, args) ==
  IF i > Len(argv) THEN args
  ELSE IF argv[i] = "--retries" THEN
    parseArgsFrom(argv, i + 2,
                  [args EXCEPT !.retries = parseInt(ArgAt(argv, i + 1))])
  ELSE IF argv[i] = "--dry-run" THEN
    parseArgsFrom(argv, i + 1, [args EXCEPT !.dryRun = TRUE])
  ELSE IF argv[i] = "--no-reset" THEN
    parseArgsFrom(argv, i + 1, [args EXCEPT !.noReset = TRUE])
  ELSE parseArgsFrom(argv, i + 1, args)

parseArgs(argv) == parseArgsFrom(argv, 1, DefaultArgs)

maxAttemptsOf(args) == Plus(Number(1), args.retries)

\* src/ of a project: as the template, modified by a CLI run, or removed
\* and not copied whole.
SrcStates == {"template", "modified", "broken"}
ResetOutcomes == {"ok", "noTemplate", "copyFails"}
resetProjectFromTemplate(src, outcome) ==
  IF outcome = "noTemplate" THEN [threw |-> TRUE, src |-> src]
  ELSE IF outcome = "copyFails" THEN [threw |-> TRUE, src |-> "broken"]
  ELSE [threw |-> FALSE, src |-> "template"]
NotReset(src) == [threw |-> FALSE, src |-> src]

\* A faulty variant: --dry-run does not keep the reset away.
resetWantedUnlessNoReset(args) == ~args.noReset

\* The guard of the reset before a project is run.
resetWanted(args) == ~args.noReset /\ ~args.dryRun

\* The guard of the reset before a retry.
retryResetWanted(args) == ~args.noReset

\* A faulty variant: a failed reset does not skip the project.
projectIsSkippedWithoutDirOnly(dirExists, resetThrew) == ~dirExists

\* The two "continue" of the project loop.
projectIsSkipped(dirExists, resetThrew) == ~dirExists \/ resetThrew

\* The result runPrompt resolves with, and the variable before any attempt.
ExitCodes == {0, 1, 2}
ResultOf(code) == [defined |-> TRUE, success |-> code = 0, exitCode |-> code]
Undefined == [defined |-> FALSE, success |-> FALSE, exitCode |-> 0]

\* The object pushed on projectResults.
promptResult(p, i, attempt, result) ==
  [promptId |-> i, smartMode |-> p = 2, attempts |-> attempt,
   success |-> result.success, exitCode |-> result.exitCode]

\* The guard of the summary and of the run-metadata file.
summaryWanted(args, allResults) == ~args.dryRun /\ Len(allResults) > 0

\* ---------------------------------------------- loggingContentGenerator
\* The responses and the errors of the wrapped generator.
Responses == {"r1", "r2"}
ApiErrors == {"quotaError", "networkError"}
NoError == "none"

\* What the wrapped generator does with a request: it rejects, or it gives
\* these responses and then ends or throws.
WrappedOf(rejects, chunks, throws) ==
  [rejects |-> rejects, chunks |-> chunks, throws |-> throws]
ChunkSeqs == UNION {[1..n -> Responses] : n \in 0..MaxChunks}
WrappedResponses ==
  {WrappedOf(NoError, <<r>>, NoError) : r \in Responses}
    \cup {WrappedOf(e, <<>>, NoError) : e \in ApiErrors}
WrappedStreams ==
  {WrappedOf(NoError, c, t) : c \in ChunkSeqs, t \in ApiErrors \cup {NoError}}
    \cup {WrappedOf(e, <<>>, NoError) : e \in ApiErrors}

OutcomeOf(kind, value) == [kind |-> kind, value |-> value]
NoOutcome == OutcomeOf("none", "")

\* generateContent, after the wrapped call resolved: the response is
\* logged, a 'success' entry is handed to BenchmarkLogger.log.
generateContentLogs == <<"apiResponse", "benchSuccess">>

\* generateContent, after the wrapped call rejected.
generateContentErrorLogs == <<"apiError", "benchError">>

\* generateContentStream, after the wrapped call rejected.
streamCreationErrorLogs == <<"apiError">>

\* Faulty wrapperYield: the first response collected is yielded again.
wrapperYieldFirst(responses, response) == responses[1]

\* loggingStreamWrapper: the response was pushed on responses and is
\* yielded as it came.
wrapperYield(responses, response) == response

\* loggingStreamWrapper, after the loop.
streamEndLogs == <<"apiResponse", "benchSuccess">>

\* Faulty streamErrorLogs: no benchmark entry on a stream error.
streamErrorLogsWithoutBenchmark == <<"apiError">>

\* loggingStreamWrapper, in its catch.
streamErrorLogs == <<"benchError", "apiError">>

\* loggingStreamWrapper, in its finally.
wrapperFinally == <<"endSpan">>

\* Faulty catchLogFailure: nothing catches the rejection of log().
catchLogFailureMissing(outcome) == OutcomeOf("unhandledRejection", "logError")

\* .catch(err => debugLogger.debug(...)) on the promise of log(): the
\* rejection ends there.
catchLogFailure(outcome) == outcome

\* ------------------------------------------------------------ runPrompt
\* Time in steps of the 5 s the runner waits between SIGTERM and SIGKILL.
KillDelay == 1
Timeouts == 1..MaxTimeout
MaxClock == MaxTimeout + KillDelay + 1

\* child.kill(signal) of node: the signal is sent to a process that still
\* exists, and child.killed is set as soon as it was sent.
kill(child, signal) ==
  IF child.state = "running"
  THEN [child EXCEPT !.signals = Append(@, signal), !.killed = TRUE]
  ELSE child

\* The guard of the second kill.
sendsSigkill(child) == ~child.killed

\* Whether a signal sent to the child ends it.
EndsChild(child) ==
  \/ \E n \in 1..Len(child.signals) : child.signals[n] = "SIGKILL"
  \/ /\ \E n \in 1..Len(child.signals) : child.signals[n] = "SIGTERM"
     /\ ~child.ignoresSigterm

\* What the close handler resolves with.
closeResult(code, duration, timeout) ==
  [success |-> code = "0", exitCode |-> code, timedOut |-> duration >= timeout]

\* What the error handler resolves with.
errorResult == [success |-> FALSE, exitCode |-> "null", timedOut |-> FALSE]

\* ------------------------------------------------------------- state
VARIABLES
  trusted,            \* config.isTrustedFolder()
  loadedPaths,        \* ContextManager.loadedPaths
  memoryFileDetails,  \* ContextManager.memoryFileDetails
  globalMemory,       \* ContextManager.globalMemory
  extensionMemory,    \* ContextManager.extensionMemory
  projectMemory,      \* ContextManager.projectMemory
  rf,                 \* the refresh() in flight, if any
  jit,                \* the discoverContext() calls in flight, per slot
  events,             \* MemoryChanged events emitted since the last refresh() began
  delivered,          \* per path: times its content was handed out since the last refresh() began
  last,               \* what the most recently completed operation did
  query,              \* the argument of extractKeywords
  extracted,          \* the result of extractKeywords, once it was called
  resultFile,         \* benchmark.result.json at BenchmarkLogger.logFilePath
  logCalls,           \* the log() calls, per caller
  lastLog,            \* what the most recently completed log() did
  run,                \* main() of run-benchmark.js: its position and its locals
  disk,               \* the projects' src/ and result files, the run-metadata file
  trace,              \* what main() did so far
  overlap,            \* per slot: what the discoverContext() calls returned, and when they ran
  gen,                \* the request of LoggingContentGenerator: its position, what was logged, what the caller got
  rp                  \* runPrompt: the child, the two timers, the clock, what it resolved with

vars == <<trusted, loadedPaths, memoryFileDetails, globalMemory,
          extensionMemory, projectMemory, rf, jit, events, delivered,
          last, query, extracted, resultFile, logCalls, lastLog,
          run, disk, trace, overlap, gen, rp>>
kwvars == <<query, extracted>>
lgvars == <<resultFile, logCalls, lastLog>>
rnvars == <<run, disk, trace>>
ovvars == <<overlap>>
gnvars == <<gen>>
rpvars == <<rp>>
cmvars == <<trusted, loadedPaths, memoryFileDetails, globalMemory,
            extensionMemory, projectMemory, rf, jit, events, delivered,
            last>>

JitIds == 1..NumJit
NoPaths == [global |-> <<>>, extension |-> <<>>, project |-> <<>>]
RfIdle == [pc |-> "idle", trustAtDiscovery |-> FALSE, found |-> NoPaths,
           paths |-> NoPaths, allPaths |-> <<>>, reordered |-> FALSE]
JitIdle == [pc |-> "idle", trustAtCall |-> FALSE, accessedPath |-> <<>>, roots |-> {},
            visited |-> <<>>, toRead |-> <<>>, before |-> {},
            repeat |-> FALSE, prevFailed |-> {}]
NoLast == [op |-> "none", trust1 |-> FALSE, trust2 |-> FALSE,
           paths |-> NoPaths, failedTiers |-> {}, accessedPath |-> <<>>,
           roots |-> {}, reads |-> <<>>, ok |-> {},
           before |-> {}, ret |-> <<>>, repeat |-> FALSE,
           prevFailed |-> {}, found |-> NoPaths, reordered |-> FALSE,
           mcp |-> <<>>, atEmit |-> <<>>, visited |-> <<>>]

NotExtracted == [called |-> FALSE]

LogIdle == [pc |-> "idle", entry |-> "", logs |-> JArray(<<>>),
            before |-> NoFile, overlapped |-> FALSE]
NoLastLog == [op |-> "none", caller |-> 0, entry |-> "", before |-> NoFile,
              overlapped |-> FALSE, failed |-> FALSE]
LoggerAtRest ==
  /\ resultFile = NoFile
  /\ logCalls = [c \in Loggers |-> LogIdle]
  /\ lastLog = NoLastLog

RunOf(args) ==
  [pc |-> "start", args |-> args, p |-> 1, i |-> 1, attempt |-> 0,
   result |-> Undefined, projectResults |-> <<>>, allResults |-> <<>>]
DiskAtStart ==
  [src |-> [p \in Projects |-> "modified"],
   results |-> [p \in Projects |-> "old"],
   meta |-> FALSE]
NoTrace ==
  [reset |-> [p \in Projects |-> "none"],
   ran |-> [p \in Projects |-> FALSE],
   firstSrc |-> [p \in Projects |-> "none"],
   previewed |-> FALSE,
   stage |-> "none",
   outcomes |-> <<>>,
   pushed |-> promptResult(1, 1, 0, Undefined)]
RunnerAtRest ==
  /\ run = RunOf(DefaultArgs)
  /\ disk = DiskAtStart
  /\ trace = NoTrace

\* What is remembered, since the last refresh() began, of the
\* discoverContext() call of each slot: whether it has returned, the files
\* it returned, whether it was called since that refresh() began, and
\* whether it was called after that refresh() had resolved.
NoOverlap ==
  [i \in JitIds |-> [done |-> FALSE, ret |-> {}, walked |-> {},
                     sameEpoch |-> FALSE, afterRefresh |-> FALSE]]

NoChild ==
  [state |-> "none", ignoresSigterm |-> FALSE, code |-> "null",
   signals |-> <<>>, killed |-> FALSE]
RpIdle ==
  [pc |-> "idle", timeout |-> 1, clock |-> 0, child |-> NoChild,
   timer |-> "none", killTimer |-> "none", killAt |-> 0,
   aliveAtKillTimer |-> FALSE, result |-> errorResult]

GenIdle ==
  [pc |-> "idle", method |-> "none", wrapped |-> WrappedOf(NoError, <<>>, NoError),
   pos |-> 0, started |-> FALSE, responses |-> <<>>, yielded |-> <<>>,
   outcome |-> NoOutcome, logs |-> <<>>, log |-> "none"]

Idle == rf.pc = "idle" /\ \A i \in JitIds : jit[i].pc = "idle"

\* How many blocks of path p a string holds.
Blocks(str, p) == Cardinality({i \in 1..Len(str) : str[i] = Tok("hdr", p)})

Init ==
  /\ trusted \in BOOLEAN
  /\ loadedPaths = {}
  /\ memoryFileDetails = <<>>
  /\ globalMemory = <<>>
  /\ extensionMemory = <<>>
  /\ projectMemory = <<>>
  /\ rf = RfIdle
  /\ jit = [i \in JitIds |-> JitIdle]
  /\ events = <<>>
  /\ delivered = [p \in Paths |-> 0]
  /\ last = NoLast
  /\ rp = RpIdle
  /\ gen = GenIdle
  /\ overlap = NoOverlap
  /\ query = <<>>
  /\ extracted = NotExtracted
  /\ LoggerAtRest
  /\ RunnerAtRest

\* The workspace trust flag is external configuration and may change at
\* any time.
SetTrusted ==
  /\ trusted' = ~trusted
  /\ UNCHANGED <<loadedPaths, memoryFileDetails, globalMemory,
                 extensionMemory, projectMemory, rf, jit, events,
                 delivered, last>>
  /\ UNCHANGED <<kwvars, lgvars, rnvars, ovvars, gnvars, rpvars>>

\* refresh(), up to the await on discoverMemoryPaths: the sets are cleared
\* and the three discoveries started; the trust flag is read here.
RefreshCall ==
  /\ Idle
  /\ loadedPaths' = {}
  /\ memoryFileDetails' = <<>>
  /\ rf' = [RfIdle EXCEPT !.pc = "discover", !.trustAtDiscovery = trusted]
  /\ events' = <<>>
  /\ delivered' = [p \in Paths |-> 0]
  /\ last' = NoLast
  /\ UNCHANGED <<trusted, globalMemory, extensionMemory, projectMemory,
                 jit>>
  /\ UNCHANGED <<kwvars, lgvars, rnvars, ovvars, gnvars, rpvars>>

\* Promise.all rejects as soon as one discovery fails: refresh() rejects
\* with nothing after the clearing done.
RefreshDiscoveryRejects ==
  /\ rf.pc = "discover"
  /\ \E failedTiers \in (SUBSET Tiers) \ {{}} :
       /\ "project" \in failedTiers => rf.trustAtDiscovery
       /\ last' = [NoLast EXCEPT !.op = "rejected",
                                 !.trust1 = rf.trustAtDiscovery,
                                 !.trust2 = trusted,
                                 !.failedTiers = failedTiers]
  /\ rf' = RfIdle
  /\ UNCHANGED <<trusted, loadedPaths, memoryFileDetails, globalMemory,
                 extensionMemory, projectMemory, jit, events,
                 delivered>>
  /\ UNCHANGED <<kwvars, lgvars, rnvars, ovvars, gnvars, rpvars>>

\* All three discoveries resolve; loadMemoryContents unions the paths and
\* starts the reads.
RefreshDiscovered ==
  /\ rf.pc = "discover"
  /\ \E g \in SUBSET GlobalCand, e \in SUBSET ExtCand, p \in SUBSET ProjCand :
     \E order \in TierOrders :
     \E results \in {[global |-> SortPaths(g),
                      extension |-> SortPaths(e),
                      project |-> projectPaths(rf.trustAtDiscovery,
                                               SortPaths(p))]} :
     \E paths \in {discoverMemoryPaths(results, order)} :
       rf' = [rf EXCEPT !.pc = "read", !.found = results, !.paths = paths,
                        !.allPaths = allPathsOf(paths),
                        !.reordered = (order[1] # "global")]
  /\ UNCHANGED <<trusted, loadedPaths, memoryFileDetails, globalMemory,
                 extensionMemory, projectMemory, jit, events,
                 delivered, last>>
  /\ UNCHANGED <<kwvars, lgvars, rnvars, ovvars, gnvars, rpvars>>

\* The reads resolve; the rest of refresh() runs without a further await.
RefreshLoaded ==
  /\ rf.pc = "read"
  /\ \E ok \in SUBSET Range(rf.allPaths) :
     \E readOrder \in ReadOrders(rf.allPaths) :
     \E allContents \in {readGeminiMdFiles(readOrder, ok)} :
     \E contentsMap \in {MapOf(allContents)} :
     \E hierarchicalMemory \in {categorizeAndConcatenate(rf.paths,
                                                         contentsMap)} :
     \E mcpInstructions \in McpTexts :
     \E mem \in {categorizeMemoryContents(hierarchicalMemory,
                                          mcpInstructions, trusted)} :
       LET filePaths == filePathsOf(loadedFiles(allContents))
       IN /\ loadedPaths' = markAsLoaded(loadedPaths, filePaths)
          /\ memoryFileDetails' = buildMemoryFileDetails(rf.paths, contentsMap)
          /\ globalMemory' = mem.globalMemory
          /\ extensionMemory' = mem.extensionMemory
          /\ projectMemory' = mem.projectMemory
          /\ events' = events \o emitMemoryChanged(loadedPaths')
          /\ delivered' = [p \in Paths |->
                             delivered[p]
                               + Blocks(globalMemory' \o extensionMemory'
                                          \o projectMemory', p)]
          /\ last' = [NoLast EXCEPT !.op = "refresh",
                                    !.trust1 = rf.trustAtDiscovery,
                                    !.trust2 = trusted,
                                    !.paths = rf.paths,
                                    !.reads = rf.allPaths,
                                    !.ok = ok,
                                    !.found = rf.found,
                                    !.reordered = rf.reordered
                                                    /\ readOrder # rf.allPaths,
                                    !.mcp = mcpInstructions,
                                    !.atEmit = <<[loaded |-> loadedPaths',
                                                  memory |-> mem]>>]
  /\ rf' = RfIdle
  /\ UNCHANGED <<trusted, jit>>
  /\ UNCHANGED <<kwvars, lgvars, rnvars, ovvars, gnvars, rpvars>>

\* discoverContext() up to its await. Untrusted: '' is returned at once.
\* Trusted: the walk is done against the loaded set as it is now and the
\* reads are started.
DiscoverContextCall ==
  /\ Idle
  /\ \E accessedPath \in AccessedPaths, roots \in RootSets :
       IF ~passesTrustGate(trusted)
       THEN /\ last' = [NoLast EXCEPT !.op = "jit", !.trust1 = trusted,
                                      !.accessedPath = accessedPath,
                                      !.roots = roots,
                                      !.before = loadedPaths]
            /\ jit' = jit
       ELSE LET i == CHOOSE k \in JitIds :
                       /\ jit[k].pc = "idle"
                       /\ \A m \in 1..(k - 1) : jit[m].pc # "idle"
                walked == Walk(accessedPath, jitTrustedRoots(roots))
                repeat == /\ last.op = "jit" /\ last.trust1
                          /\ last.accessedPath = accessedPath
                          /\ last.roots = roots
            IN /\ jit' = [jit EXCEPT ![i] =
                    [pc |-> "read", trustAtCall |-> trusted,
                     accessedPath |-> accessedPath,
                     roots |-> roots,
                     visited |-> walked,
                     toRead |-> JitCandidates(accessedPath,
                                              jitTrustedRoots(roots),
                                              alreadyLoadedPaths(loadedPaths)),
                     before |-> loadedPaths, repeat |-> repeat,
                     prevFailed |-> (Range(last.reads) \ last.ok) \cap
                        {MemFile(walked[n]) : n \in 1..Len(walked)}]]
               /\ last' = NoLast
  /\ UNCHANGED <<trusted, loadedPaths, memoryFileDetails, globalMemory,
                 extensionMemory, projectMemory, rf, events,
                 delivered>>
  /\ UNCHANGED <<kwvars, lgvars, rnvars, ovvars, gnvars, rpvars>>

\* The JIT reads resolve; the new files are marked as loaded and returned.
DiscoverContextReturn(i) ==
  /\ jit[i].pc = "read"
  /\ \E ok \in SUBSET Range(jit[i].toRead) :
     \E result \in {loadJitSubdirectoryMemory(jit[i].toRead, ok)} :
     \E files \in {discoverContextFiles(result)} :
     \E ret \in {IF Len(result.files) = 0 THEN <<>>
                 ELSE concatenateInstructions(files)} :
     \E mem \in {tierStringsAfterDiscover(
                   [globalMemory |-> globalMemory,
                    extensionMemory |-> extensionMemory,
                    projectMemory |-> projectMemory], ret)} :
          /\ loadedPaths' = loadedAfterDiscover(loadedPaths, result)
          /\ globalMemory' = mem.globalMemory
          /\ extensionMemory' = mem.extensionMemory
          /\ projectMemory' = mem.projectMemory
          /\ delivered' = [p \in Paths |-> delivered[p] + Blocks(ret, p)]
          /\ last' = [NoLast EXCEPT !.op = "jit",
                                    !.trust1 = jit[i].trustAtCall,
                                    !.accessedPath = jit[i].accessedPath,
                                    !.roots = jit[i].roots,
                                    !.visited = jit[i].visited,
                                    !.reads = jit[i].toRead,
                                    !.ok = ok,
                                    !.before = jit[i].before,
                                    !.ret = ret,
                                    !.repeat = jit[i].repeat,
                                    !.prevFailed = jit[i].prevFailed]
  /\ jit' = [jit EXCEPT ![i] = JitIdle]
  /\ UNCHANGED <<trusted, memoryFileDetails, rf, events>>
  /\ UNCHANGED <<kwvars, lgvars, rnvars, ovvars, gnvars, rpvars>>

Next ==
  \/ SetTrusted
  \/ RefreshCall
  \/ RefreshDiscoveryRejects
  \/ RefreshDiscovered
  \/ RefreshLoaded
  \/ DiscoverContextCall
  \/ \E i \in JitIds : DiscoverContextReturn(i)

Spec == Init /\ [][Next]_vars

\* The same ContextManager with nothing serializing its callers: refresh()
\* and discoverContext() are async methods of one instance and nothing in
\* the class keeps a call from starting while another one is awaiting.
\* The operations awaiting something.
InFlightCount ==
  (IF rf.pc = "idle" THEN 0 ELSE 1)
    + Cardinality({i \in JitIds : jit[i].pc # "idle"})

OvInit ==
  /\ trusted = TRUE
  /\ loadedPaths = {}
  /\ memoryFileDetails = <<>>
  /\ globalMemory = <<>>
  /\ extensionMemory = <<>>
  /\ projectMemory = <<>>
  /\ rf = RfIdle
  /\ jit = [i \in JitIds |-> JitIdle]
  /\ events = <<>>
  /\ delivered = [p \in Paths |-> 0]
  /\ last = NoLast
  /\ rp = RpIdle
  /\ gen = GenIdle
  /\ overlap = NoOverlap
  /\ query = <<>>
  /\ extracted = NotExtracted
  /\ LoggerAtRest
  /\ RunnerAtRest

\* refresh() up to its first await, called while discoverContext() calls
\* may be awaiting their reads.
RefreshCallInterleaved ==
  /\ rf.pc = "idle"
  /\ InFlightCount < MaxInFlight
  /\ loadedPaths' = {}
  /\ memoryFileDetails' = <<>>
  /\ rf' = [RfIdle EXCEPT !.pc = "discover", !.trustAtDiscovery = trusted]
  /\ events' = <<>>
  /\ last' = NoLast
  /\ overlap' = NoOverlap
  /\ UNCHANGED <<trusted, globalMemory, extensionMemory, projectMemory,
                 jit, delivered>>
  /\ UNCHANGED <<kwvars, lgvars, rnvars, gnvars, rpvars>>

\* discoverContext() up to its await, called while a refresh() or another
\* discoverContext() may be awaiting.
DiscoverContextCallInterleaved ==
  /\ passesTrustGate(trusted)
  /\ InFlightCount < MaxInFlight
  /\ \E i \in JitIds :
       /\ jit[i].pc = "idle"
       /\ \A m \in 1..(i - 1) : jit[m].pc # "idle"
       /\ \E accessedPath \in AccessedPaths, roots \in RootSets :
          \E walked \in {Walk(accessedPath, jitTrustedRoots(roots))} :
            jit' = [jit EXCEPT ![i] =
                    [pc |-> "read", trustAtCall |-> trusted,
                     accessedPath |-> accessedPath,
                     roots |-> roots,
                     visited |-> walked,
                     toRead |-> JitCandidates(accessedPath,
                                              jitTrustedRoots(roots),
                                              alreadyLoadedPaths(loadedPaths)),
                     before |-> {}, repeat |-> FALSE,
                     prevFailed |-> {}]]
       /\ overlap' = [overlap EXCEPT ![i] =
                        [done |-> FALSE, ret |-> {}, walked |-> {},
                         sameEpoch |-> TRUE,
                         afterRefresh |-> rf.pc = "idle" /\ events # <<>>]]
  /\ UNCHANGED <<trusted, loadedPaths, memoryFileDetails, globalMemory,
                 extensionMemory, projectMemory, rf, events,
                 delivered, last>>
  /\ UNCHANGED <<kwvars, lgvars, rnvars, gnvars, rpvars>>

\* The JIT reads of slot i resolve, whatever else is in flight.
DiscoverContextReturnInterleaved(i) ==
  /\ jit[i].pc = "read"
  /\ \E ok \in SUBSET Range(jit[i].toRead) :
     \E result \in {loadJitSubdirectoryMemory(jit[i].toRead, ok)} :
     \E files \in {discoverContextFiles(result)} :
     \E ret \in {IF Len(result.files) = 0 THEN <<>>
                 ELSE concatenateInstructions(files)} :
          /\ loadedPaths' = loadedAfterDiscover(loadedPaths, result)
          /\ overlap' = [overlap EXCEPT
               ![i].done = TRUE,
               ![i].ret = {p \in Paths : Blocks(ret, p) > 0},
               ![i].walked = {MemFile(jit[i].visited[n]) :
                                n \in 1..Len(jit[i].visited)}]
  /\ jit' = [jit EXCEPT ![i] = JitIdle]
  /\ UNCHANGED <<trusted, memoryFileDetails, globalMemory, extensionMemory,
                 projectMemory, rf, events, delivered, last>>
  /\ UNCHANGED <<kwvars, lgvars, rnvars, gnvars, rpvars>>

\* One of the discoveries rejects, whatever else is in flight: refresh()
\* rejects with nothing after the clearing done.
RefreshDiscoveryRejectsInterleaved ==
  /\ rf.pc = "discover"
  /\ rf' = RfIdle
  /\ UNCHANGED <<trusted, loadedPaths, memoryFileDetails, globalMemory,
                 extensionMemory, projectMemory, jit, events,
                 delivered, last, overlap>>
  /\ UNCHANGED <<kwvars, lgvars, rnvars, gnvars, rpvars>>

\* All three discoveries resolve, whatever else is in flight; no extension
\* is installed.
RefreshDiscoveredInterleaved ==
  /\ rf.pc = "discover"
  /\ \E g \in SUBSET GlobalCand, e \in {{}}, p \in SUBSET ProjCand :
     \E order \in TierOrders :
     \E results \in {[global |-> SortPaths(g),
                      extension |-> SortPaths(e),
                      project |-> projectPaths(rf.trustAtDiscovery,
                                               SortPaths(p))]} :
     \E paths \in {discoverMemoryPaths(results, order)} :
       rf' = [rf EXCEPT !.pc = "read", !.paths = paths,
                        !.allPaths = allPathsOf(paths)]
  /\ UNCHANGED <<trusted, loadedPaths, memoryFileDetails, globalMemory,
                 extensionMemory, projectMemory, jit, events,
                 delivered, last, overlap>>
  /\ UNCHANGED <<kwvars, lgvars, rnvars, gnvars, rpvars>>

\* The reads of the refresh() resolve, whatever else is in flight; the
\* rest of refresh() runs without a further await. No MCP server gives
\* instructions.
RefreshLoadedInterleaved ==
  /\ rf.pc = "read"
  /\ \E ok \in SUBSET Range(rf.allPaths) :
     \E allContents \in {readGeminiMdFiles(rf.allPaths, ok)} :
     \E contentsMap \in {MapOf(allContents)} :
     \E hierarchicalMemory \in {categorizeAndConcatenate(rf.paths,
                                                         contentsMap)} :
     \E mcpInstructions \in {<<>>} :
     \E mem \in {categorizeMemoryContents(hierarchicalMemory,
                                          mcpInstructions, trusted)} :
       LET filePaths == filePathsOf(loadedFiles(allContents))
       IN /\ loadedPaths' = markAsLoaded(loadedPaths, filePaths)
          /\ memoryFileDetails' = buildMemoryFileDetails(rf.paths, contentsMap)
          /\ globalMemory' = mem.globalMemory
          /\ extensionMemory' = mem.extensionMemory
          /\ projectMemory' = mem.projectMemory
          /\ events' = events \o emitMemoryChanged(loadedPaths')
  /\ rf' = RfIdle
  /\ UNCHANGED <<trusted, jit, delivered, last, overlap>>
  /\ UNCHANGED <<kwvars, lgvars, rnvars, gnvars, rpvars>>

OvNext ==
  \/ RefreshCallInterleaved
  \/ RefreshDiscoveryRejectsInterleaved
  \/ RefreshDiscoveredInterleaved
  \/ RefreshLoadedInterleaved
  \/ DiscoverContextCallInterleaved
  \/ \E i \in JitIds : DiscoverContextReturnInterleaved(i)

SpecInterleaved == OvInit /\ [][OvNext]_vars

\* extractKeywords applied to every query of the bounded set.
KwInit ==
  /\ trusted = FALSE
  /\ loadedPaths = {}
  /\ memoryFileDetails = <<>>
  /\ globalMemory = <<>>
  /\ extensionMemory = <<>>
  /\ projectMemory = <<>>
  /\ rf = RfIdle
  /\ jit = [i \in JitIds |-> JitIdle]
  /\ events = <<>>
  /\ delivered = [p \in Paths |-> 0]
  /\ last = NoLast
  /\ rp = RpIdle
  /\ gen = GenIdle
  /\ overlap = NoOverlap
  /\ query \in Queries
  /\ extracted = NotExtracted
  /\ LoggerAtRest
  /\ RunnerAtRest

ExtractKeywordsCall ==
  /\ ~extracted.called
  /\ extracted' = [called |-> TRUE, result |-> extractKeywords(query)]
  /\ UNCHANGED query
  /\ UNCHANGED <<cmvars, lgvars, rnvars, ovvars, gnvars, rpvars>>

KwNext == ExtractKeywordsCall

SpecKeywords == KwInit /\ [][KwNext]_vars

\* BenchmarkLogger.log on one result file, each caller logging one entry.
\* The two awaits of log() are the points where another call may run.
LgInit ==
  /\ trusted = FALSE
  /\ loadedPaths = {}
  /\ memoryFileDetails = <<>>
  /\ globalMemory = <<>>
  /\ extensionMemory = <<>>
  /\ projectMemory = <<>>
  /\ rf = RfIdle
  /\ jit = [i \in JitIds |-> JitIdle]
  /\ events = <<>>
  /\ delivered = [p \in Paths |-> 0]
  /\ last = NoLast
  /\ rp = RpIdle
  /\ gen = GenIdle
  /\ overlap = NoOverlap
  /\ query = <<>>
  /\ extracted = NotExtracted
  /\ resultFile \in {NoFile} \cup {FileOf(text) : text \in FileTexts}
  /\ logCalls = [c \in Loggers |-> LogIdle]
  /\ lastLog = NoLastLog
  /\ RunnerAtRest

InFlight(c) == logCalls[c].pc \in {"reading", "writing"}

\* log(entry) is called: fs.readFile is started.
LogCall(c) ==
  /\ logCalls[c].pc = "idle"
  /\ logCalls' =
       [d \in Loggers |->
          IF d = c
          THEN [pc |-> "reading", entry |-> EntryOf(c), logs |-> JArray(<<>>),
                before |-> resultFile,
                overlapped |-> \E o \in Loggers \ {c} : InFlight(o)]
          ELSE IF InFlight(d)
          THEN [logCalls[d] EXCEPT !.overlapped = TRUE]
          ELSE logCalls[d]]
  /\ UNCHANGED <<resultFile, lastLog>>
  /\ UNCHANGED <<cmvars, kwvars, rnvars, ovvars, gnvars, rpvars>>

\* fs.readFile settles: the content is parsed, the entry is pushed and
\* fs.writeFile is started, or the push throws and log() rejects.
LogRead(c) ==
  /\ logCalls[c].pc = "reading"
  /\ \E pushed \in {pushEntry(readLogs(resultFile), logCalls[c].entry)} :
       IF pushed.threw
       THEN /\ logCalls' = [logCalls EXCEPT ![c].pc = "rejected"]
            /\ lastLog' = [op |-> "log", caller |-> c,
                           entry |-> logCalls[c].entry,
                           before |-> logCalls[c].before,
                           overlapped |-> logCalls[c].overlapped,
                           failed |-> TRUE]
       ELSE /\ logCalls' = [logCalls EXCEPT ![c].pc = "writing",
                                            ![c].logs = pushed.logs]
            /\ UNCHANGED lastLog
  /\ UNCHANGED resultFile
  /\ UNCHANGED <<cmvars, kwvars, rnvars, ovvars, gnvars, rpvars>>

\* fs.writeFile settles: the file holds the text of logs, log() resolves.
LogWritten(c) ==
  /\ logCalls[c].pc = "writing"
  /\ resultFile' = FileOf(JSONstringify(logCalls[c].logs))
  /\ logCalls' = [logCalls EXCEPT ![c].pc = "resolved"]
  /\ lastLog' = [op |-> "log", caller |-> c, entry |-> logCalls[c].entry,
                 before |-> logCalls[c].before,
                 overlapped |-> logCalls[c].overlapped, failed |-> FALSE]
  /\ UNCHANGED <<cmvars, kwvars, rnvars, ovvars, gnvars, rpvars>>

LgNext ==
  \/ \E c \in Loggers : LogCall(c)
  \/ \E c \in Loggers : LogRead(c)
  \/ \E c \in Loggers : LogWritten(c)

SpecLogger == LgInit /\ [][LgNext]_vars

\* main() of run-benchmark.js, for every command line of the bounded set.
RnInit ==
  /\ trusted = FALSE
  /\ loadedPaths = {}
  /\ memoryFileDetails = <<>>
  /\ globalMemory = <<>>
  /\ extensionMemory = <<>>
  /\ projectMemory = <<>>
  /\ rf = RfIdle
  /\ jit = [i \in JitIds |-> JitIdle]
  /\ events = <<>>
  /\ delivered = [p \in Paths |-> 0]
  /\ last = NoLast
  /\ rp = RpIdle
  /\ gen = GenIdle
  /\ overlap = NoOverlap
  /\ query = <<>>
  /\ extracted = NotExtracted
  /\ LoggerAtRest
  /\ run \in {RunOf(parseArgs(argv)) : argv \in Argvs}
  /\ disk = DiskAtStart
  /\ trace = NoTrace

\* The validations before the project loop: the CLI script and, unless
\* --no-reset is given, the template must exist.
MainStart ==
  /\ run.pc = "start"
  /\ \E cliExists \in BOOLEAN, templateExists \in BOOLEAN :
       run' = [run EXCEPT !.pc =
                 IF ~cliExists \/ (~run.args.noReset /\ ~templateExists)
                 THEN "exited" ELSE "project"]
  /\ UNCHANGED <<disk, trace>>
  /\ UNCHANGED <<cmvars, kwvars, lgvars, ovvars, gnvars, rpvars>>

\* The head of the project loop: the directory check, the reset and the
\* clearing of the result file; after the last project, the summary.
ProjectBegin ==
  /\ run.pc = "project"
  /\ IF run.p > NumProjects
     THEN /\ run' = [run EXCEPT !.pc = "summary"]
          /\ UNCHANGED <<disk, trace>>
     ELSE \E dirExists \in BOOLEAN, outcome \in ResetOutcomes :
          \E reset \in {IF dirExists /\ resetWanted(run.args)
                        THEN resetProjectFromTemplate(disk.src[run.p], outcome)
                        ELSE NotReset(disk.src[run.p])} :
            /\ trace' = [trace EXCEPT !.reset[run.p] =
                           IF dirExists /\ resetWanted(run.args)
                           THEN (IF reset.threw THEN "failed" ELSE "ok")
                           ELSE @]
            /\ IF projectIsSkipped(dirExists, reset.threw)
               THEN /\ run' = [run EXCEPT !.p = @ + 1]
                    /\ disk' = [disk EXCEPT !.src[run.p] = reset.src]
               ELSE /\ run' = [run EXCEPT !.pc = "prompt", !.i = 1,
                                          !.projectResults = <<>>]
                    /\ disk' = [disk EXCEPT
                                  !.src[run.p] = reset.src,
                                  !.results[run.p] =
                                    IF ~run.args.dryRun THEN "cleared" ELSE @]
  /\ UNCHANGED <<cmvars, kwvars, lgvars, ovvars, gnvars, rpvars>>

\* The head of the prompt loop; after the last prompt the project's
\* results are pushed on allResults.
PromptBegin ==
  /\ run.pc = "prompt"
  /\ IF run.i > NumPrompts
     THEN /\ run' = [run EXCEPT !.pc = "project", !.p = @ + 1,
                                !.allResults = Append(@, run.projectResults)]
          /\ UNCHANGED trace
     ELSE IF run.args.dryRun
     THEN /\ run' = [run EXCEPT !.i = @ + 1]
          /\ trace' = [trace EXCEPT !.previewed = TRUE]
     ELSE /\ run' = [run EXCEPT !.pc = "loop", !.attempt = 0,
                                !.result = Undefined]
          /\ trace' = [trace EXCEPT !.stage = "looping", !.outcomes = <<>>]
  /\ UNCHANGED disk
  /\ UNCHANGED <<cmvars, kwvars, lgvars, ovvars, gnvars, rpvars>>

\* The head of the retry loop: before a retry src/ is reset again, a
\* failure of that reset being reported only; then the CLI is spawned.
LoopHead ==
  /\ run.pc = "loop"
  /\ IF LessThan(Number(run.attempt), maxAttemptsOf(run.args))
     THEN \E outcome \in ResetOutcomes :
          \E reset \in {IF run.attempt + 1 > 1 /\ retryResetWanted(run.args)
                        THEN resetProjectFromTemplate(disk.src[run.p], outcome)
                        ELSE NotReset(disk.src[run.p])} :
            /\ run' = [run EXCEPT !.pc = "running", !.attempt = @ + 1]
            /\ disk' = [disk EXCEPT !.src[run.p] = "modified"]
            /\ trace' = [trace EXCEPT
                           !.ran[run.p] = TRUE,
                           !.firstSrc[run.p] =
                             IF trace.ran[run.p] THEN @ ELSE reset.src]
     ELSE /\ run' = [run EXCEPT !.pc = "afterLoop"]
          /\ trace' = [trace EXCEPT !.stage = "left"]
          /\ UNCHANGED disk
  /\ UNCHANGED <<cmvars, kwvars, lgvars, ovvars, gnvars, rpvars>>

\* runPrompt resolves: a success leaves the retry loop.
RunPromptResolves ==
  /\ run.pc = "running"
  /\ \E code \in ExitCodes :
       /\ run' = [run EXCEPT !.result = ResultOf(code),
                             !.pc = IF code = 0 THEN "afterLoop" ELSE "loop"]
       /\ trace' = [trace EXCEPT
                      !.outcomes = Append(@, ResultOf(code)),
                      !.stage = IF code = 0 THEN "left" ELSE @]
  /\ UNCHANGED disk
  /\ UNCHANGED <<cmvars, kwvars, lgvars, ovvars, gnvars, rpvars>>

\* After the retry loop: result.success is read, which throws when no
\* attempt was made, and the prompt's result is pushed on projectResults.
RecordPrompt ==
  /\ run.pc = "afterLoop"
  /\ IF ~run.result.defined
     THEN /\ run' = [run EXCEPT !.pc = "crashed"]
          /\ trace' = [trace EXCEPT !.stage = "crashed"]
     ELSE \E pushed \in {promptResult(run.p, run.i, run.attempt, run.result)} :
            /\ run' = [run EXCEPT !.pc = "prompt", !.i = @ + 1,
                                  !.projectResults = Append(@, pushed)]
            /\ trace' = [trace EXCEPT !.stage = "recorded", !.pushed = pushed]
  /\ UNCHANGED disk
  /\ UNCHANGED <<cmvars, kwvars, lgvars, ovvars, gnvars, rpvars>>

\* The summary and the run-metadata file.
Summary ==
  /\ run.pc = "summary"
  /\ run' = [run EXCEPT !.pc = "done"]
  /\ disk' = [disk EXCEPT !.meta =
                IF summaryWanted(run.args, run.allResults) THEN TRUE ELSE @]
  /\ UNCHANGED trace
  /\ UNCHANGED <<cmvars, kwvars, lgvars, ovvars, gnvars, rpvars>>

RnNext ==
  \/ MainStart
  \/ ProjectBegin
  \/ PromptBegin
  \/ LoopHead
  \/ RunPromptResolves
  \/ RecordPrompt
  \/ Summary

SpecRunner == RnInit /\ [][RnNext]_vars

TypeOK ==
  /\ trusted \in BOOLEAN
  /\ loadedPaths \subseteq Paths
  /\ rf.pc \in {"idle", "discover", "read"}

\* LoggingContentGenerator: one request after the other, each with a
\* wrapped generator that behaves in one of the bounded ways.
GnInit ==
  /\ trusted = FALSE
  /\ loadedPaths = {}
  /\ memoryFileDetails = <<>>
  /\ globalMemory = <<>>
  /\ extensionMemory = <<>>
  /\ projectMemory = <<>>
  /\ rf = RfIdle
  /\ jit = [i \in JitIds |-> JitIdle]
  /\ events = <<>>
  /\ delivered = [p \in Paths |-> 0]
  /\ last = NoLast
  /\ rp = RpIdle
  /\ overlap = NoOverlap
  /\ gen = GenIdle
  /\ query = <<>>
  /\ extracted = NotExtracted
  /\ LoggerAtRest
  /\ RunnerAtRest

GenAtRest == gen.pc \in {"idle", "done"} /\ gen.log # "pending"

\* generateContent up to its await: the request is logged.
GenerateContentCall ==
  /\ GenAtRest
  /\ \E w \in WrappedResponses :
       gen' = [GenIdle EXCEPT !.pc = "awaitResponse",
                              !.method = "generateContent",
                              !.wrapped = w,
                              !.logs = <<"apiRequest">>]
  /\ UNCHANGED <<cmvars, kwvars, lgvars, rnvars, ovvars, rpvars>>

\* The wrapped generateContent settles: the try or the catch runs to its
\* end without a further await, log() is called and not awaited.
GenerateContentSettles ==
  /\ gen.pc = "awaitResponse"
  /\ gen' = IF gen.wrapped.rejects = NoError
            THEN [gen EXCEPT !.pc = "done",
                             !.logs = @ \o generateContentLogs,
                             !.log = "pending",
                             !.outcome = OutcomeOf("response",
                                                   gen.wrapped.chunks[1])]
            ELSE [gen EXCEPT !.pc = "done",
                             !.logs = @ \o generateContentErrorLogs,
                             !.log = "pending",
                             !.outcome = OutcomeOf("error",
                                                   gen.wrapped.rejects)]
  /\ UNCHANGED <<cmvars, kwvars, lgvars, rnvars, ovvars, rpvars>>

\* generateContentStream up to its await: the request is logged.
GenerateContentStreamCall ==
  /\ GenAtRest
  /\ \E w \in WrappedStreams :
       gen' = [GenIdle EXCEPT !.pc = "awaitStream",
                              !.method = "generateContentStream",
                              !.wrapped = w,
                              !.logs = <<"apiRequest">>]
  /\ UNCHANGED <<cmvars, kwvars, lgvars, rnvars, ovvars, rpvars>>

\* The wrapped generateContentStream settles: on a rejection the error is
\* logged and rethrown, otherwise the wrapper is returned, not yet started.
StreamCreationSettles ==
  /\ gen.pc = "awaitStream"
  /\ gen' = IF gen.wrapped.rejects = NoError
            THEN [gen EXCEPT !.pc = "streaming",
                             !.outcome = OutcomeOf("stream", "")]
            ELSE [gen EXCEPT !.pc = "done",
                             !.logs = @ \o streamCreationErrorLogs,
                             !.outcome = OutcomeOf("error",
                                                   gen.wrapped.rejects)]
  /\ UNCHANGED <<cmvars, kwvars, lgvars, rnvars, ovvars, rpvars>>

\* The consumer asks the wrapper for its next response: the wrapped stream
\* gives one, ends or throws.
ConsumerNext ==
  /\ gen.pc = "streaming"
  /\ gen' =
       IF gen.pos < Len(gen.wrapped.chunks)
       THEN LET response == gen.wrapped.chunks[gen.pos + 1]
                responses == Append(gen.responses, response)
            IN [gen EXCEPT !.started = TRUE,
                           !.pos = @ + 1,
                           !.responses = responses,
                           !.yielded = Append(@, wrapperYield(responses,
                                                              response))]
       ELSE IF gen.wrapped.throws = NoError
       THEN [gen EXCEPT !.pc = "done",
                        !.started = TRUE,
                        !.logs = @ \o streamEndLogs \o wrapperFinally,
                        !.log = "pending",
                        !.outcome = OutcomeOf("streamEnded", "")]
       ELSE [gen EXCEPT !.pc = "done",
                        !.started = TRUE,
                        !.logs = @ \o streamErrorLogs \o wrapperFinally,
                        !.log = "pending",
                        !.outcome = OutcomeOf("streamThrew",
                                              gen.wrapped.throws)]
  /\ UNCHANGED <<cmvars, kwvars, lgvars, rnvars, ovvars, rpvars>>

\* The consumer leaves its loop early and the wrapper is returned: only the
\* finally of a wrapper that was started runs.
ConsumerReturns ==
  /\ gen.pc = "streaming"
  /\ gen' = [gen EXCEPT !.pc = "done",
                        !.logs = IF gen.started THEN @ \o wrapperFinally
                                 ELSE @,
                        !.outcome = OutcomeOf("streamReturned", "")]
  /\ UNCHANGED <<cmvars, kwvars, lgvars, rnvars, ovvars, rpvars>>

\* The promise of BenchmarkLogger.log settles, after the caller has its
\* outcome; a rejection goes to the catch handler.
BenchmarkLogSettles ==
  /\ gen.log = "pending"
  /\ \E rejected \in BOOLEAN :
       gen' = IF rejected
              THEN [gen EXCEPT !.log = "rejected",
                               !.outcome = catchLogFailure(@)]
              ELSE [gen EXCEPT !.log = "resolved"]
  /\ UNCHANGED <<cmvars, kwvars, lgvars, rnvars, ovvars, rpvars>>

GnNext ==
  \/ GenerateContentCall
  \/ GenerateContentSettles
  \/ GenerateContentStreamCall
  \/ StreamCreationSettles
  \/ ConsumerNext
  \/ ConsumerReturns
  \/ BenchmarkLogSettles

SpecGenerator == GnInit /\ [][GnNext]_vars

\* runPrompt of run-benchmark.js with its child process, its timers and
\* the clock.
RpInit ==
  /\ trusted = FALSE
  /\ loadedPaths = {}
  /\ memoryFileDetails = <<>>
  /\ globalMemory = <<>>
  /\ extensionMemory = <<>>
  /\ projectMemory = <<>>
  /\ rf = RfIdle
  /\ jit = [i \in JitIds |-> JitIdle]
  /\ events = <<>>
  /\ delivered = [p \in Paths |-> 0]
  /\ last = NoLast
  /\ overlap = NoOverlap
  /\ gen = GenIdle
  /\ rp = RpIdle
  /\ query = <<>>
  /\ extracted = NotExtracted
  /\ LoggerAtRest
  /\ RunnerAtRest

\* runPrompt is called: the child is spawned, or the spawn fails, and the
\* timeout timer is set.
RunPromptCall ==
  /\ rp.pc = "idle"
  /\ \E timeout \in Timeouts, spawned \in BOOLEAN, ignoresSigterm \in BOOLEAN :
       rp' = [RpIdle EXCEPT
                !.pc = "waiting",
                !.timeout = timeout,
                !.child = [NoChild EXCEPT
                             !.state = IF spawned THEN "running"
                                       ELSE "failed",
                             !.ignoresSigterm = ignoresSigterm],
                !.timer = "set"]
  /\ UNCHANGED <<cmvars, kwvars, lgvars, rnvars, ovvars, gnvars>>

\* child.on('error'): the spawn failed.
ChildError ==
  /\ rp.pc = "waiting"
  /\ rp.child.state = "failed"
  /\ rp' = [rp EXCEPT !.pc = "resolved",
                      !.timer = IF @ = "set" THEN "cleared" ELSE @,
                      !.result = errorResult]
  /\ UNCHANGED <<cmvars, kwvars, lgvars, rnvars, ovvars, gnvars>>

\* Five more seconds pass; a timer that is due fires first.
Tick ==
  /\ rp.pc # "idle"
  /\ rp.clock < MaxClock
  /\ ~(rp.timer = "set" /\ rp.clock >= rp.timeout)
  /\ ~(rp.killTimer = "set" /\ rp.clock >= rp.killAt)
  /\ rp' = [rp EXCEPT !.clock = @ + 1]
  /\ UNCHANGED <<cmvars, kwvars, lgvars, rnvars, ovvars, gnvars>>

\* The child ends by itself.
ChildExits ==
  /\ rp.child.state = "running"
  /\ \E code \in {"0", "1"} :
       rp' = [rp EXCEPT !.child.state = "exited", !.child.code = code]
  /\ UNCHANGED <<cmvars, kwvars, lgvars, rnvars, ovvars, gnvars>>

\* A signal ends the child.
ChildDiesOfSignal ==
  /\ rp.child.state = "running"
  /\ EndsChild(rp.child)
  /\ rp' = [rp EXCEPT !.child.state = "exited", !.child.code = "null"]
  /\ UNCHANGED <<cmvars, kwvars, lgvars, rnvars, ovvars, gnvars>>

\* child.on('close'): the timeout timer is cleared and runPrompt resolves.
ChildClose ==
  /\ rp.pc = "waiting"
  /\ rp.child.state = "exited"
  /\ rp' = [rp EXCEPT !.pc = "resolved",
                      !.timer = IF @ = "set" THEN "cleared" ELSE @,
                      !.result = closeResult(rp.child.code, rp.clock,
                                             rp.timeout)]
  /\ UNCHANGED <<cmvars, kwvars, lgvars, rnvars, ovvars, gnvars>>

\* The timeout timer fires: SIGTERM, and the second timer is set.
TimeoutFires ==
  /\ rp.timer = "set"
  /\ rp.clock >= rp.timeout
  /\ rp' = [rp EXCEPT !.timer = "fired",
                      !.child = kill(rp.child, "SIGTERM"),
                      !.killTimer = "set",
                      !.killAt = rp.clock + KillDelay]
  /\ UNCHANGED <<cmvars, kwvars, lgvars, rnvars, ovvars, gnvars>>

\* The second timer fires: SIGKILL if child.killed is not set.
KillTimerFires ==
  /\ rp.killTimer = "set"
  /\ rp.clock >= rp.killAt
  /\ rp' = [rp EXCEPT !.killTimer = "fired",
                      !.aliveAtKillTimer = rp.child.state = "running",
                      !.child = IF sendsSigkill(rp.child)
                                THEN kill(rp.child, "SIGKILL")
                                ELSE rp.child]
  /\ UNCHANGED <<cmvars, kwvars, lgvars, rnvars, ovvars, gnvars>>

RpNext ==
  \/ RunPromptCall
  \/ ChildError
  \/ Tick
  \/ ChildExits
  \/ ChildDiesOfSignal
  \/ ChildClose
  \/ TimeoutFires
  \/ KillTimerFires

\* Time passes, due timers fire, signals are delivered and the handlers of
\* the child's events run; nothing makes the child end by itself.
RpFairness ==
  /\ WF_vars(ChildError)
  /\ WF_vars(Tick)
  /\ WF_vars(ChildDiesOfSignal)
  /\ WF_vars(ChildClose)
  /\ WF_vars(TimeoutFires)
  /\ WF_vars(KillTimerFires)

SpecRunPrompt == RpInit /\ [][RpNext]_vars /\ RpFairness

\* ------------------------------------------------------- observations
FilesIn(str) == {p \in Paths : Blocks(str, p) > 0}
Published == globalMemory \o extensionMemory \o projectMemory
Discovered(paths) ==
  Range(paths.global) \cup Range(paths.extension) \cup Range(paths.project)
LastFailed == Range(last.reads) \ last.ok
Occurrences(s, x) == Cardinality({i \in 1..Len(s) : s[i] = x})
WalkFiles(accessedPath, roots) ==
  {MemFile(d) : d \in Range(Walk(accessedPath, roots))}
RecordsOf(p) ==
  {i \in 1..Len(memoryFileDetails) : memoryFileDetails[i].path = p}
HighestTier(paths, p) ==
  CHOOSE t \in Tiers :
    /\ p \in Range(paths[t])
    /\ t = "extension" => p \notin Range(paths.global)
    /\ t = "project" => p \notin Range(paths.global) \cup Range(paths.extension)

\* ------------------------------------------------------------- claims

\* C1: after a refresh() during which the workspace was untrusted both when
\* the discoveries were started and when the tier strings were built, the
\* project tier string is empty (no file block, no MCP text), no project
\* path was discovered and every path read was a global or extension path.
C1_UntrustedRefreshHasNoProjectMemory ==
  (last.op = "refresh" /\ ~last.trust1 /\ ~last.trust2) =>
     /\ projectMemory = <<>>
     /\ last.paths.project = <<>>
     /\ Range(last.reads) \subseteq
          Range(last.paths.global) \cup Range(last.paths.extension)

\* C1 witness: an untrusted refresh() completed and loaded other tiers' files.
C1_Witness ==
  /\ last.op = "refresh" /\ ~last.trust1 /\ ~last.trust2
  /\ globalMemory # <<>> /\ extensionMemory # <<>>

\* C2: a discoverContext() call made while the workspace is untrusted
\* returns the empty string, reads nothing and leaves the loaded set as it
\* was.
C2_UntrustedDiscoverContextDoesNothing ==
  (last.op = "jit" /\ ~last.trust1) =>
     /\ last.ret = <<>>
     /\ last.reads = <<>>
     /\ loadedPaths = last.before

\* C2 witness: an untrusted call was made for a path whose walk holds a
\* memory file that is not loaded.
C2_Witness ==
  /\ last.op = "jit" /\ ~last.trust1
  /\ WalkFiles(last.accessedPath, last.roots) \ loadedPaths # {}
  /\ loadedPaths # {}

\* C3: a trusted discoverContext() never returns a file that was in the
\* loaded set when the call started, and since the last refresh() began no
\* file's content has been handed out more than once (in a tier string or
\* in a discoverContext() result).
C3_NoContentDeliveredTwice ==
  /\ (last.op = "jit" /\ last.trust1) => FilesIn(last.ret) \cap last.before = {}
  /\ \A p \in Paths : delivered[p] <= 1

\* C3 witness: a trusted call walked over a file loaded earlier, skipped it
\* and returned another one.
C3_Witness ==
  /\ last.op = "jit" /\ last.trust1
  /\ WalkFiles(last.accessedPath, last.roots) \cap last.before # {}
  /\ last.ret # <<>>

\* C4 as stated: the second of two identical trusted discoverContext()
\* calls in succession returns empty content and leaves the size of the
\* loaded set unchanged.
C4_RepeatedCallReturnsNothing ==
  (last.op = "jit" /\ last.trust1 /\ last.repeat) =>
     /\ last.ret = <<>>
     /\ Cardinality(loadedPaths) = Cardinality(last.before)

\* C4 amended: the same, unless the second call succeeds in reading a file
\* that the first call tried and failed to read.
C4_RepeatedCallReturnsNothingUnlessRetried ==
  (last.op = "jit" /\ last.trust1 /\ last.repeat
     /\ last.prevFailed \cap last.ok = {}) =>
     /\ last.ret = <<>>
     /\ Cardinality(loadedPaths) = Cardinality(last.before)

\* C4 witness: the repeated call came after a call that delivered a file of
\* the same walk, and its own reads all failed or were skipped.
C4_Witness ==
  /\ last.op = "jit" /\ last.trust1 /\ last.repeat
  /\ last.prevFailed \cap last.ok = {}
  /\ \E p \in WalkFiles(last.accessedPath, last.roots) :
       p \in last.before /\ delivered[p] = 1 /\ p \notin FilesIn(Published)

\* C5: when refresh() completes, the loaded set is exactly the set of
\* discovered paths whose read succeeded; every discovered path was read.
C5_RefreshLoadsExactlyTheReadableFiles ==
  last.op = "refresh" =>
     /\ Range(last.reads) = Discovered(last.paths)
     /\ loadedPaths = last.ok
     /\ LastFailed \cap loadedPaths = {}

\* C5 witness: a refresh() completed with one read failed and another
\* discovered file loaded.
C5_Witness ==
  /\ last.op = "refresh"
  /\ LastFailed # {}
  /\ loadedPaths # {}

\* C6 as stated: a refresh() in which some tier's discovery failed still
\* completes.
C6_DiscoveryFailureDoesNotAbortRefresh ==
  last.failedTiers # {} => last.op = "refresh"

\* C7: every step other than the start of a refresh() leaves the loaded set
\* a superset of what it was.
C7_LoadedPathsShrinkOnlyAtRefreshStart ==
  [][\/ loadedPaths \subseteq loadedPaths'
     \/ rf.pc = "idle" /\ rf'.pc = "discover"]_vars

\* C7 witness: a discoverContext() that started with a non-empty loaded set
\* added a path to it.
C7_Witness ==
  /\ last.op = "jit"
  /\ last.before # {}
  /\ last.before # loadedPaths
  /\ last.before \subseteq loadedPaths

\* C8: after refresh(), every discovered path was read exactly once, a path
\* read successfully has exactly one file record, with the highest-priority
\* tier that discovered it, and a path whose read failed has none.
C8_PathReadOnceAndRecordedUnderHighestTier ==
  last.op = "refresh" =>
    \A p \in Discovered(last.paths) :
       /\ Occurrences(last.reads, p) = 1
       /\ p \in last.ok =>
            /\ Cardinality(RecordsOf(p)) = 1
            /\ \A i \in RecordsOf(p) :
                 memoryFileDetails[i].tier = HighestTier(last.paths, p)
       /\ p \notin last.ok => RecordsOf(p) = {}

\* C8 witness: refresh() loaded one path found by the global and extension
\* tiers and one found by the extension and project tiers.
C8_Witness ==
  /\ last.op = "refresh"
  /\ \E p \in last.ok :
       p \in Range(last.paths.global) \cap Range(last.paths.extension)
  /\ \E p \in last.ok :
       p \in Range(last.paths.extension) \cap Range(last.paths.project)

\* C9 as stated: whenever no operation is in flight, the file-detail list
\* holds exactly one record for every loaded path and no other record.
C9_OneRecordPerLoadedPath ==
  Idle =>
    /\ \A p \in loadedPaths : Cardinality(RecordsOf(p)) = 1
    /\ Len(memoryFileDetails) = Cardinality(loadedPaths)

\* C10 as stated: a failed read marks nothing as loaded. A refresh() reads
\* every path its discovery reaches, whatever failed before, and a
\* discoverContext() reads again every path of its walk that failed in the
\* operation before; a path read with success is loaded and its content is
\* in the operation's output (the published tier strings, the returned
\* string).
C10_FailedReadIsRetriedAndDelivered ==
  /\ last.op = "refresh" =>
       /\ LastFailed \cap loadedPaths = {}
       /\ \A p \in Discovered(last.paths) :
            /\ p \in Range(last.reads)
            /\ p \in last.ok => p \in loadedPaths /\ p \in FilesIn(Published)
  /\ (last.op = "jit" /\ last.trust1) =>
       /\ LastFailed \cap loadedPaths = {}
       /\ \A p \in last.prevFailed :
            /\ p \in Range(last.reads)
            /\ p \in last.ok => p \in loadedPaths /\ p \in FilesIn(last.ret)

\* C10 amended: as stated, except that a project-tier file read by a
\* refresh() is not published when the workspace is no longer trusted at the
\* moment the tier strings are built.
C10_FailedReadIsRetriedAndDeliveredIfTrusted ==
  /\ last.op = "refresh" =>
       /\ LastFailed \cap loadedPaths = {}
       /\ \A p \in Discovered(last.paths) :
            /\ p \in Range(last.reads)
            /\ p \in last.ok =>
                 /\ p \in loadedPaths
                 /\ \/ p \in FilesIn(Published)
                    \/ ~last.trust2 /\ HighestTier(last.paths, p) = "project"
  /\ (last.op = "jit" /\ last.trust1) =>
       /\ LastFailed \cap loadedPaths = {}
       /\ \A p \in last.prevFailed :
            /\ p \in Range(last.reads)
            /\ p \in last.ok => p \in loadedPaths /\ p \in FilesIn(last.ret)

\* C10 witness: a discoverContext() read again, with success, a path whose
\* read had failed in the operation before, and returned it.
C10_Witness ==
  /\ last.op = "jit" /\ last.trust1
  /\ \E p \in last.prevFailed : p \in last.ok /\ p \in FilesIn(last.ret)

\* The tier string built from the files found and read, whatever the order
\* in which discoveries and reads completed: the blocks of the tier's files,
\* parent directory first, then by path.
ExpectedTierText(found, ok, t) ==
  LET sorted == SortPaths({p \in ok \cap Discovered(found) :
                             HighestTier(found, p) = t})
  IN Join([i \in 1..Len(sorted) |->
             Block([filePath |-> sorted[i], content |-> FileText(sorted[i])])],
          <<Sep>>)

\* A project string without the MCP text appended to it.
StripMcp(str) ==
  IF Len(str) > 0 /\ str[Len(str)] = Mcp
  THEN IF Len(str) > 1 /\ str[Len(str) - 1] = Sep
       THEN SubSeq(str, 1, Len(str) - 2)
       ELSE SubSeq(str, 1, Len(str) - 1)
  ELSE str

\* C11: after a refresh(), the three tier strings are the ones determined
\* by the sets of paths the discoveries found and by the files read, for
\* every completion order of the discoveries and of the reads (the project
\* string up to the MCP text, which is a separate input).
C11_TierStringsIndependentOfCompletionOrder ==
  last.op = "refresh" =>
     /\ globalMemory = ExpectedTierText(last.found, last.ok, "global")
     /\ extensionMemory = ExpectedTierText(last.found, last.ok, "extension")
     /\ last.trust2 =>
          StripMcp(projectMemory)
            = ExpectedTierText(last.found, last.ok, "project")

\* C11 witness: the global discovery did not complete first, the reads
\* completed in another order than asked (the file records are out of
\* order) and the project string holds two files.
C11_Witness ==
  /\ last.op = "refresh" /\ last.reordered
  /\ Cardinality(FilesIn(projectMemory)) >= 2
  /\ \E i, j \in 1..Len(memoryFileDetails) :
       i < j /\ Before(memoryFileDetails[j].path, memoryFileDetails[i].path)

\* C12: a refresh() that completed emitted exactly one MemoryChanged event;
\* its fileCount is the number of files that refresh() read with success,
\* and at the emission the loaded set and the tier strings were already the
\* rebuilt ones.
C12_OneMemoryChangedEventPerRefresh ==
  last.op = "refresh" =>
     /\ Len(events) = 1
     /\ events[1].fileCount = Cardinality(last.ok)
     /\ last.atEmit[1].loaded = loadedPaths
     /\ last.atEmit[1].memory = [globalMemory |-> globalMemory,
                                 extensionMemory |-> extensionMemory,
                                 projectMemory |-> projectMemory]

\* C12 witness: a refresh() completed with two files loaded and a failed
\* read.
C12_Witness ==
  /\ last.op = "refresh"
  /\ Cardinality(last.ok) = 2
  /\ LastFailed # {}
  /\ Len(events) = 1

\* C13: the three tier strings change only in the step that completes a
\* refresh(); every step of a discoverContext() leaves them as they were.
C13_DiscoverContextLeavesTierStrings ==
  [][\/ /\ globalMemory' = globalMemory
        /\ extensionMemory' = extensionMemory
        /\ projectMemory' = projectMemory
     \/ rf.pc = "read" /\ rf'.pc = "idle"]_vars

\* C13 witness: a discoverContext() returned a file while the project string
\* held another one, and the returned file is in no tier string.
C13_Witness ==
  /\ last.op = "jit" /\ last.ret # <<>>
  /\ FilesIn(projectMemory) # {}
  /\ FilesIn(last.ret) \cap FilesIn(Published) = {}

\* C14: after a refresh() that built the tier strings in a trusted
\* workspace, the project string is the project tier's file content, then,
\* if the MCP text is more than whitespace, that text without its leading
\* whitespace, set off by a blank line when there is file content before
\* it; with no MCP text it is the file content alone.
C14_McpTextFollowsProjectFiles ==
  (last.op = "refresh" /\ last.trust2) =>
     LET fileContent == ExpectedTierText(last.found, last.ok, "project")
         mcpText == trimStart(last.mcp)
     IN projectMemory =
          IF mcpText = <<>> THEN fileContent
          ELSE IF fileContent = <<>> THEN mcpText
          ELSE fileContent \o <<Sep>> \o mcpText

\* C14 witness: a trusted refresh() loaded a project file and was given MCP
\* text that starts with whitespace.
C14_Witness ==
  /\ last.op = "refresh" /\ last.trust2
  /\ FilesIn(projectMemory) # {}
  /\ last.mcp = <<Ws, Mcp>>

\* Directory a is d or one of its ancestors.
IsPrefix(a, d) == Len(a) <= Len(d) /\ SubSeq(d, 1, Len(a)) = a

\* The directories from the one that holds accessedPath up to a, deepest
\* first.
DirsUpTo(accessedPath, a) ==
  LET d == Dirname(accessedPath)
  IN [i \in 1..(Len(d) - Len(a) + 1) |-> SubSeq(d, 1, Len(d) + 1 - i)]

\* The trusted roots that accessedPath is inside of.
RootsAround(accessedPath, roots) ==
  {a \in roots : IsPrefix(a, Dirname(accessedPath))}

\* C15: a trusted discoverContext() for a path inside a trusted root visits
\* the directories from the one that holds the path up to that root, in
\* that order, and no other: every file it reads or adds to the loaded set
\* is the memory file of one of them, none lies above the root.
C15_WalkStopsAtTrustedRoot ==
  (last.op = "jit" /\ last.trust1
     /\ RootsAround(last.accessedPath, last.roots) # {}) =>
     LET near == RootsAround(last.accessedPath, last.roots)
         a == CHOOSE r \in near : \A q \in near : Len(q) <= Len(r)
         within == {MemFile(d) : d \in Range(DirsUpTo(last.accessedPath, a))}
     IN /\ last.visited = DirsUpTo(last.accessedPath, a)
        /\ Range(last.reads) \subseteq within
        /\ (loadedPaths \ last.before) \subseteq within
        /\ \A p \in Range(last.reads) \cup (loadedPaths \ last.before) :
             IsPrefix(a, Dirname(p))

\* C15 witness: the call was made for a file two levels deep with its
\* parent's parent as the trusted root, which has the filesystem root
\* above it; both memory files on the way were read and loaded.
C15_Witness ==
  /\ last.op = "jit" /\ last.trust1
  /\ last.roots = {Chain(1)}
  /\ Len(last.visited) = 2
  /\ loadedPaths \ last.before = {MemFile(Chain(1)), MemFile(Chain(2))}

\* ---------------------------------------------- claims: keywordExtractor
\* The four category lists of a result, highest priority first.
Categories(r) ==
  <<r.quotedStrings, r.filePaths, r.identifiers, r.generalTerms>>

AllTerms(r) == Flatten(Categories(r))

SameTerm(x, y) == toLowerCase(x) = toLowerCase(y)

\* s without the elements that repeat an earlier one, letter case aside.
RECURSIVE WithoutLaterDuplicates(_)
WithoutLaterDuplicates(s) ==
  IF Len(s) = 0 THEN <<>>
  ELSE <<Head(s)>> \o
       WithoutLaterDuplicates(
         SelectSeq(Tail(s), LAMBDA x : ~SameTerm(x, Head(s))))

\* The highest-priority category that holds the term, letter case aside.
CategoryOf(r, term) ==
  CHOOSE c \in 1..4 :
    /\ \E x \in Range(Categories(r)[c]) : SameTerm(x, term)
    /\ \A b \in 1..(c - 1) :
         \A x \in Range(Categories(r)[b]) : ~SameTerm(x, term)

InSomeCategory(r, term) == \E x \in Range(AllTerms(r)) : SameTerm(x, term)

\* Keywords follow the priority of the categories.
InPriorityOrder(r) ==
  /\ \A i \in 1..Len(r.keywords) : InSomeCategory(r, r.keywords[i])
  /\ \A i, j \in 1..Len(r.keywords) :
       i < j => CategoryOf(r, r.keywords[i]) <= CategoryOf(r, r.keywords[j])

C17_KeywordsAreTheUnionOfTheLists ==
  extracted.called =>
    /\ \A t \in Range(AllTerms(extracted.result)) :
         \E k \in Range(extracted.result.keywords) : SameTerm(k, t)
    /\ Range(extracted.result.keywords)
         \subseteq Range(AllTerms(extracted.result))

\* C17 amended: every term of more than one character of the four lists is
\* in keywords, letter case aside, and every keyword is a term of one of the
\* four lists.
C17_KeywordsAreTheUnionOfTheLongerTerms ==
  extracted.called =>
    /\ \A t \in Range(AllTerms(extracted.result)) :
         Len(t) > 1 =>
           \E k \in Range(extracted.result.keywords) : SameTerm(k, t)
    /\ Range(extracted.result.keywords)
         \subseteq Range(AllTerms(extracted.result))

\* C17 witness: a term of two characters is in a list and in keywords.
C17_Witness ==
  /\ extracted.called
  /\ \E t \in Range(AllTerms(extracted.result)) :
       Len(t) = 2 /\ t \in Range(extracted.result.keywords)

\* C18: no two keywords are equal, letter case aside.
C18_KeywordsDifferCaseInsensitively ==
  extracted.called =>
    \A i, j \in 1..Len(extracted.result.keywords) :
      i # j => ~SameTerm(extracted.result.keywords[i],
                         extracted.result.keywords[j])

\* C18 witness: the lists hold two terms that differ in letter case only.
C18_Witness ==
  /\ extracted.called
  /\ extracted.result.keywords # <<>>
  /\ \E x, y \in Range(AllTerms(extracted.result)) : x # y /\ SameTerm(x, y)

C20_QuotedStringsBetweenMatchingQuotes ==
  extracted.called =>
    \A n \in 1..Len(extracted.result.quotedStrings) :
      /\ Len(extracted.result.quotedStrings[n]) > 0
      /\ \E i, j \in 1..Len(query) :
           /\ i < j
           /\ IsQuote(query[i])
           /\ query[j] = query[i]
           /\ \A k \in (i + 1)..(j - 1) : query[k] # query[i]
           /\ extracted.result.quotedStrings[n]
                = trim(SubSeq(query, i + 1, j - 1))

\* C21 as stated: every file path holds a slash and does not end with a
\* dot.
C21_FilePathsHaveSeparatorAndNoTrailingDot ==
  extracted.called =>
    \A n \in 1..Len(extracted.result.filePaths) :
      LET filePath == extracted.result.filePaths[n]
      IN /\ "/" \in Range(filePath)
         /\ filePath[Len(filePath)] # "."

\* The maximal runs of \w characters of the query.
WordsOf(q) ==
  {SubSeq(q, ij[1], ij[2]) : ij \in
     {ij \in (1..Len(q)) \X (1..Len(q)) :
        /\ ij[1] <= ij[2]
        /\ \A k \in ij[1]..ij[2] : IsWord(q[k])
        /\ ij[1] = 1 \/ ~IsWord(q[ij[1] - 1])
        /\ ij[2] = Len(q) \/ ~IsWord(q[ij[2] + 1])}}

\* A lower-case letter at k with a capital after it.
TransitionAt(w, k) == k < Len(w) /\ IsLower(w[k]) /\ IsUpper(w[k + 1])

\* The pieces of w between its lower-to-upper transitions.
CamelComponents(w) ==
  {SubSeq(w, ij[1], ij[2]) : ij \in
     {ij \in (1..Len(w)) \X (1..Len(w)) :
        /\ ij[1] <= ij[2]
        /\ ij[1] = 1 \/ TransitionAt(w, ij[1] - 1)
        /\ ij[2] = Len(w) \/ TransitionAt(w, ij[2])
        /\ \A k \in ij[1]..(ij[2] - 1) : ~TransitionAt(w, k)}}

\* The non-empty pieces of w between its underscores.
SnakeComponents(w) ==
  {SubSeq(w, ij[1], ij[2]) : ij \in
     {ij \in (1..Len(w)) \X (1..Len(w)) :
        /\ ij[1] <= ij[2]
        /\ ij[1] = 1 \/ w[ij[1] - 1] = "_"
        /\ ij[2] = Len(w) \/ w[ij[2] + 1] = "_"
        /\ \A k \in ij[1]..ij[2] : w[k] # "_"}}

ComponentsOf(w) ==
  IF IsCamel(w) THEN CamelComponents(w) ELSE SnakeComponents(w)

Qualifies(c) == Len(c) > 2 /\ toLowerCase(c) \notin STOP_WORDS

RecognisedIn(q) == {w \in WordsOf(q) : IsCamel(w) \/ IsSnake(w)}

\* C22: identifiers holds, for every identifier recognised in the query,
\* the whole identifier and its components that are longer than 2 and no
\* stop words, and nothing else: no term of 2 characters or less and no
\* stop word.
C22_IdentifiersAreWholeAndQualifyingComponents ==
  extracted.called =>
    /\ Range(extracted.result.identifiers)
         = UNION {{w} \cup {c \in ComponentsOf(w) : Qualifies(c)} :
                    w \in RecognisedIn(query)}
    /\ \A t \in Range(extracted.result.identifiers) : Qualifies(t)

\* C22 witness: an identifier was recognised that has a component which is
\* kept and one which is a capitalised stop word.
C22_Witness ==
  /\ extracted.called
  /\ \E w \in RecognisedIn(query) :
       /\ w \in Range(extracted.result.identifiers)
       /\ \E c \in ComponentsOf(w) :
            Qualifies(c) /\ c \in Range(extracted.result.identifiers)
       /\ \E c \in ComponentsOf(w) :
            /\ Len(c) > 2 /\ c \notin STOP_WORDS /\ ~Qualifies(c)
            /\ c \notin Range(extracted.result.identifiers)

\* The tokens of the query made of \w characters and hyphens that have a
\* hyphen between two \w characters and no underscore.
KebabTokensOf(q) ==
  {t \in {SubSeq(q, ij[1], ij[2]) : ij \in
            {ij \in (1..Len(q)) \X (1..Len(q)) :
               /\ ij[1] <= ij[2]
               /\ \A k \in ij[1]..ij[2] : IsWord(q[k]) \/ q[k] = "-"
               /\ ij[1] = 1 \/ ~(IsWord(q[ij[1] - 1]) \/ q[ij[1] - 1] = "-")
               /\ ij[2] = Len(q)
                    \/ ~(IsWord(q[ij[2] + 1]) \/ q[ij[2] + 1] = "-")}} :
     /\ "_" \notin Range(t)
     /\ IsWord(t[1]) /\ IsWord(t[Len(t)])
     /\ \E k \in 2..(Len(t) - 1) :
          t[k] = "-" /\ IsWord(t[k - 1]) /\ IsWord(t[k + 1])}

\* C23 as stated: a kebab-case token of the query is in identifiers.
C23_KebabTokensAreIdentifiers ==
  extracted.called =>
    \A t \in KebabTokensOf(query) : t \in Range(extracted.result.identifiers)

\* The lower-to-upper transitions of a word.
Transitions(w) == {k \in 1..Len(w) : TransitionAt(w, k)}

\* C24 as stated: a word of letters with a single lower-to-upper transition
\* puts nothing into identifiers, and every camelCase or PascalCase word in
\* identifiers has two or more of them.
C24_CamelNeedsTwoTransitions ==
  extracted.called =>
    /\ \A w \in WordsOf(query) :
         (/\ \A k \in 1..Len(w) : IsLower(w[k]) \/ IsUpper(w[k])
          /\ Cardinality(Transitions(w)) = 1)
           => w \notin Range(extracted.result.identifiers)
    /\ \A w \in WordsOf(query) :
         (IsCamel(w) /\ w \in Range(extracted.result.identifiers))
           => Cardinality(Transitions(w)) >= 2

\* C25: no general term has 2 characters or less, and none is a stop word
\* when written in lower case.
C25_GeneralTermsAreLongAndNoStopWords ==
  extracted.called =>
    \A n \in 1..Len(extracted.result.generalTerms) :
      /\ Len(extracted.result.generalTerms[n]) > 2
      /\ toLowerCase(extracted.result.generalTerms[n]) \notin STOP_WORDS

\* C25 witness: the query holds, outside quotes and paths, a word of one
\* character, a capitalised stop word and a word that is kept.
C25_Witness ==
  /\ extracted.called
  /\ extracted.result.quotedStrings = <<>>
  /\ extracted.result.filePaths = <<>>
  /\ <<"A", "d", "d">> \in WordsOf(query)
  /\ \E w \in WordsOf(query) : Len(w) <= 2
  /\ extracted.result.generalTerms # <<>>

\* What a file holds, as a JSON value; a missing file and a text that is no
\* JSON hold none.
Holds(file) == IF file.exists THEN JSONparse(file.text) ELSE SyntaxError
HoldsArray(file) == Holds(file).ok /\ Holds(file).value.t = "array"
AloneLog == lastLog.op = "log" /\ ~lastLog.overlapped

\* C29: after a log(entry) that no other log() overlapped, on a file that
\* held a JSON array, the call has not failed and the file holds the array
\* of the entries it held before, in their order, followed by entry.
C29_LogAppendsToTheArray ==
  (AloneLog /\ HoldsArray(lastLog.before)) =>
    /\ ~lastLog.failed
    /\ HoldsArray(resultFile)
    /\ Holds(resultFile).value.items
         = Append(Holds(lastLog.before).value.items, JObject(lastLog.entry))

\* C29 witness: the file held two entries or more in an array before a
\* log() that ran alone.
C29_Witness ==
  /\ AloneLog
  /\ HoldsArray(lastLog.before)
  /\ Len(Holds(lastLog.before).value.items) >= 2
  /\ ~lastLog.failed
  /\ Len(Holds(resultFile).value.items) >= 3

\* C30 as stated: after a log(entry) that ran alone on a file that was
\* missing, was no JSON or held a value that is no array, the call has not
\* failed and the file holds the array of entry alone.
C30_LogStartsFreshOnAnUnusableFile ==
  (AloneLog /\ ~HoldsArray(lastLog.before)) =>
    /\ ~lastLog.failed
    /\ HoldsArray(resultFile)
    /\ Holds(resultFile).value.items = <<JObject(lastLog.entry)>>

\* The part of C30 the code keeps: a missing file and a text that is no
\* JSON are replaced by the array of entry alone.
LogStartsFreshOnAMissingOrInvalidFile ==
  (AloneLog /\ ~Holds(lastLog.before).ok) =>
    /\ ~lastLog.failed
    /\ HoldsArray(resultFile)
    /\ Holds(resultFile).value.items = <<JObject(lastLog.entry)>>

\* The attempts of a prompt whose retry loop was left, as C26 states them:
\* one at least and 1 + retries at most, each but the last one failed, and
\* what was pushed for the prompt is the last attempt's result with the
\* number of attempts.
AttemptsAsStated ==
  /\ Len(trace.outcomes) >= 1
  /\ ~LessThan(maxAttemptsOf(run.args), Number(Len(trace.outcomes)))
  /\ ~maxAttemptsOf(run.args).nan
  /\ \A k \in 1..(Len(trace.outcomes) - 1) : ~trace.outcomes[k].success
  /\ trace.stage # "crashed"
  /\ trace.stage = "recorded" =>
       /\ trace.pushed.attempts = Len(trace.outcomes)
       /\ trace.pushed.success = trace.outcomes[Len(trace.outcomes)].success
       /\ trace.pushed.exitCode = trace.outcomes[Len(trace.outcomes)].exitCode

\* C26 as stated: every prompt the runner executes has its attempts as
\* stated, whatever the command line.
C26_AttemptsWithinRetries ==
  trace.stage \in {"left", "recorded", "crashed"} => AttemptsAsStated

\* The same when --retries is given a count (0 or more) or is left out.
AttemptsWithinACountOfRetries ==
  (/\ trace.stage \in {"left", "recorded", "crashed"}
   /\ LessThan(Number(0 - 1), run.args.retries))
    => AttemptsAsStated

\* C27: without --no-reset and without --dry-run, a project whose prompt
\* was run had its src/ replaced by the template before, the first run
\* finding src/ as the template; a project whose reset failed has no
\* prompt run.
C27_NoPromptBeforeReset ==
  (~run.args.noReset /\ ~run.args.dryRun) =>
    \A p \in Projects :
      /\ trace.ran[p] => (trace.reset[p] = "ok" /\ trace.firstSrc[p] = "template")
      /\ trace.reset[p] = "failed" => ~trace.ran[p]

\* C27 witness: at the end of a run one project's reset had failed and the
\* other project's prompts were run after its reset.
C27_Witness ==
  /\ ~run.args.noReset /\ ~run.args.dryRun
  /\ run.pc = "done"
  /\ \E p, q \in Projects :
       /\ trace.reset[p] = "failed" /\ ~trace.ran[p]
       /\ trace.reset[q] = "ok" /\ trace.ran[q]

\* C28: with --dry-run no CLI is spawned, no src/ is reset, no result file
\* is cleared and no run-metadata file is written.
C28_DryRunChangesNothing ==
  run.args.dryRun =>
    /\ \A p \in Projects :
         /\ ~trace.ran[p]
         /\ trace.reset[p] = "none"
         /\ disk.src[p] = DiskAtStart.src[p]
         /\ disk.results[p] = DiskAtStart.results[p]
    /\ ~disk.meta

\* C28 witness: a dry run that went through the prompts of a project and
\* ended, --no-reset not being given.
C28_Witness ==
  /\ run.args.dryRun /\ ~run.args.noReset
  /\ run.pc = "done"
  /\ trace.previewed
  /\ Len(run.allResults) > 0

\* C31 as stated: once every log() call has resolved, whatever their
\* interleaving, the file holds an array with every logged entry once.
C31_EveryLoggedEntryOnce ==
  (\A c \in Loggers : logCalls[c].pc = "resolved") =>
    /\ HoldsArray(resultFile)
    /\ \A c \in Loggers :
         Occurrences(Holds(resultFile).value.items, JObject(EntryOf(c))) = 1

\* The same for calls none of which overlapped another.
EveryLoggedEntryOnceWithoutOverlap ==
  (\A c \in Loggers : logCalls[c].pc = "resolved" /\ ~logCalls[c].overlapped) =>
    /\ HoldsArray(resultFile)
    /\ \A c \in Loggers :
         Occurrences(Holds(resultFile).value.items, JObject(EntryOf(c))) = 1

\* C32 as stated: of two discoverContext() calls on a trusted workspace that
\* ran interleaved, with no refresh() begun since either was called, no
\* memory file is returned by both.
C32_NoFileReturnedByTwoInterleavedCalls ==
  \A i, j \in JitIds :
    (/\ i # j
     /\ overlap[i].done /\ overlap[i].sameEpoch
     /\ overlap[j].done /\ overlap[j].sameEpoch)
      => overlap[i].ret \cap overlap[j].ret = {}

\* C33 as stated: once a refresh() has resolved and a discoverContext() that
\* returned after that refresh() began has completed, no file of the tier
\* strings the refresh() built is among the files the discoverContext()
\* returned.
C33_NoFileInTierAndJit ==
  (rf.pc = "idle" /\ events # <<>>) =>
    \A i \in JitIds :
      overlap[i].done => overlap[i].ret \cap FilesIn(Published) = {}

\* C33 amended: the same for a discoverContext() called after the refresh()
\* had resolved, no other refresh() having begun since.
C33_NoFileInTierAndJitCalledAfterRefresh ==
  \A i \in JitIds :
    (overlap[i].done /\ overlap[i].afterRefresh) =>
      overlap[i].ret \cap FilesIn(Published) = {}

\* C33 witness: a discoverContext() called after a refresh() that had built
\* tier strings from files of its walk returned another file.
C33_Witness ==
  \E i \in JitIds :
    /\ overlap[i].done /\ overlap[i].afterRefresh
    /\ overlap[i].ret # {}
    /\ overlap[i].walked \cap FilesIn(Published) # {}

\* C34 as stated: with no operation in flight, every file in a published
\* tier string is in the loaded set.
C34_PublishedFilesAreLoaded ==
  Idle => FilesIn(Published) \subseteq loadedPaths

\* ---------------------------------------- claims: loggingContentGenerator
Logged(what) == Occurrences(gen.logs, what)

\* C35: a stream consumed to its end leaves one response log, one 'success'
\* benchmark entry and no error log; a stream that throws leaves one error
\* log, one 'error' benchmark entry and no response log; either way endSpan
\* is called once, after the logging.
C35_StreamLogsOnceThenEndsSpan ==
  /\ gen.outcome.kind = "streamEnded" =>
       /\ Logged("apiResponse") = 1 /\ Logged("benchSuccess") = 1
       /\ Logged("apiError") = 0 /\ Logged("benchError") = 0
  /\ gen.outcome.kind = "streamThrew" =>
       /\ Logged("apiError") = 1 /\ Logged("benchError") = 1
       /\ Logged("apiResponse") = 0 /\ Logged("benchSuccess") = 0
  /\ gen.outcome.kind \in {"streamEnded", "streamThrew"} =>
       /\ Logged("endSpan") = 1
       /\ gen.logs[Len(gen.logs)] = "endSpan"

\* C35 witness: a stream that threw after it had given a response.
C35_Witness ==
  /\ gen.outcome.kind = "streamThrew"
  /\ gen.yielded # <<>>
  /\ Logged("endSpan") = 1

\* The error the wrapped generator fails with.
WrappedError ==
  IF gen.wrapped.rejects # NoError THEN gen.wrapped.rejects
  ELSE gen.wrapped.throws

\* C36 as stated: every request that failed left one 'error' benchmark
\* entry and gave the caller the error of the wrapped generator.
C36_EveryFailureHasOneErrorEntry ==
  gen.outcome.kind \in {"error", "streamThrew"} =>
    /\ Logged("benchError") = 1
    /\ gen.outcome.value = WrappedError

\* The same without the case of generateContentStream rejecting before a
\* stream is returned.
EveryFailureButStreamCreationHasOneErrorEntry ==
  (/\ gen.outcome.kind \in {"error", "streamThrew"}
   /\ ~(gen.method = "generateContentStream" /\ gen.outcome.kind = "error")) =>
    /\ Logged("benchError") = 1
    /\ gen.outcome.value = WrappedError

\* C37: the wrapper yields the responses of the wrapped stream as they are
\* and in their order, and ends, or throws the same error, when and only
\* when the wrapped stream does.
C37_WrapperYieldsTheWrappedStream ==
  gen.method = "generateContentStream" =>
    /\ gen.yielded = SubSeq(gen.wrapped.chunks, 1, gen.pos)
    /\ gen.outcome.kind = "streamEnded" =>
         /\ gen.yielded = gen.wrapped.chunks
         /\ gen.wrapped.throws = NoError
    /\ gen.outcome.kind = "streamThrew" =>
         /\ gen.yielded = gen.wrapped.chunks
         /\ gen.wrapped.throws # NoError
         /\ gen.outcome.value = gen.wrapped.throws

\* C37 witness: two different responses were yielded before the error.
C37_Witness ==
  /\ gen.outcome.kind = "streamThrew"
  /\ Len(gen.yielded) = 2
  /\ gen.yielded[1] # gen.yielded[2]

\* What the wrapped generator alone gives the caller.
WrappedOutcome ==
  IF gen.method = "generateContent"
  THEN IF gen.wrapped.rejects = NoError
       THEN OutcomeOf("response", gen.wrapped.chunks[1])
       ELSE OutcomeOf("error", gen.wrapped.rejects)
  ELSE IF gen.wrapped.throws = NoError
       THEN OutcomeOf("streamEnded", "")
       ELSE OutcomeOf("streamThrew", gen.wrapped.throws)

\* C38: whether log() resolved or rejected, the caller has what the wrapped
\* generator gave: the response, the end of the stream after all of its
\* responses, or the error.
C38_LogFailureChangesNothing ==
  gen.log \in {"resolved", "rejected"} =>
    /\ gen.outcome = WrappedOutcome
    /\ gen.method = "generateContentStream" =>
         gen.yielded = gen.wrapped.chunks

\* C38 witness: log() rejected after a response was returned.
C38_Witness ==
  /\ gen.log = "rejected"
  /\ gen.outcome.kind = "response"

\* ------------------------------------------------------ claims: runPrompt
\* C39 as stated: once the timeout timer of a runPrompt call has fired, the
\* call eventually resolves.
C39_TimedOutRunResolves ==
  (rp.timer = "fired") ~> (rp.pc = "resolved")

\* The part of C39 about SIGKILL: a child still running when the second
\* timer fired was sent SIGKILL.
SigkillSentToAChildStillRunning ==
  rp.aliveAtKillTimer =>
    \E n \in 1..Len(rp.child.signals) : rp.child.signals[n] = "SIGKILL"
====
